---- MODULE Spec2Model ----
(***************************************************************************)
(* Model of the ai-shopstream storefront: the mock catalog filter, the     *)
(* catalog client, the cart calculator, the bulk catalog loader, the       *)
(* inventory index and the outfit-recommendation route and client.         *)
(*                                                                         *)
(* Conventions                                                             *)
(*   - a string that the code searches or lower-cases is a sequence of     *)
(*     one-character strings; identifiers and URLs, which the code only    *)
(*     compares, are plain strings;                                        *)
(*   - a price is a number of cents, a rating a number of tenths;          *)
(*   - an optional value (undefined / null in the source) is a sequence    *)
(*     of length 0 (None) or 1 (Some(x));                                  *)
(*   - a JavaScript Map is a sequence of [key, value] entries in           *)
(*     insertion order.                                                    *)
(***************************************************************************)
EXTENDS Integers, Sequences, FiniteSets, TLC

VARIABLES
    fsCall,             \* last call of fetchStorefrontProducts: arguments, proxy outcome, result
    mockCall,           \* last call of mockFetchProducts: argument and result
    products,           \* React state `products` (displayed product list)
    cart,               \* React state `cart`: id -> quantity
    subtotal,           \* useMemo(computeSubtotal(products, cart))
    addCalls,           \* history: the addToCart calls handled so far
    shopDomain,         \* React state `shopDomain` (from the environment)
    storefrontToken,    \* React state `storefrontToken` (from the environment)
    query,              \* React state `query`
    useStoredInventory, \* React state `useStoredInventory` (cache mode)
    inventoryStats,     \* React state `inventoryStats`: the last getInventoryStats() stored
    inventoryStore,     \* the module-level inventoryStore
    chat,               \* React state `chat`
    alertShown,         \* the text of the last alert()
    shopCatalog,        \* the remote shop: its product edges in listing order
    load,               \* the loadFullInventory / fetchAllShopifyProducts task
    loadsStarted,       \* loadFullInventory invocations so far
    rebuildInput,       \* history: the lists given to the latest and the previous storeInventoryData
    readerSaw,          \* history: what the step that led here read of the store, if it was a reader
    outfit,             \* the outfit form, `outfitRecommendations`, and the generateOutfitRecommendations task
    route,              \* the outfit-recommendations route: the request it handled and its answer
    indexCall,          \* direct calls of the index operations: rebuilds so far, last query call and its result
    answerCall,         \* a call of mockLLMAnswer or of translate: arguments and result
    fetchEffect         \* the product-fetch effect: its runs awaiting fetchStorefrontProducts, and who wrote `products` last

catalogVars == <<fsCall, mockCall>>
cartVars == <<products, cart, subtotal, addCalls>>
credentialVars == <<shopDomain, storefrontToken>>
inventoryVars == <<query, useStoredInventory, inventoryStats, inventoryStore, chat, alertShown,
                   shopCatalog, load, loadsStarted, rebuildInput, readerSaw>>
outfitVars == <<outfit, route>>
indexVars == <<indexCall>>
answerVars == <<answerCall>>
effectVars == <<fetchEffect>>
vars == <<fsCall, mockCall, products, cart, subtotal, addCalls, shopDomain, storefrontToken, query,
          useStoredInventory, inventoryStats, inventoryStore, chat, alertShown, shopCatalog,
          load, loadsStarted, rebuildInput, readerSaw, outfit, route, indexCall,
          answerCall, fetchEffect>>

----------------------------------------------------------------------------
(* Bounds *)

MaxEdges == 2           \* records in one single-page storefront response
MaxQty == 3             \* quantity of one cart entry
MaxAdds == 6            \* addToCart calls of one session
MaxListLen == 2         \* length of a displayed product list drawn as input
MaxCatalog == 3         \* products of the remote shop
PageSize == 1           \* records per page of the bulk listing (the route asks for 50)
MaxRequests == 5        \* page requests of one load that a remote listing answers with "another page"
MaxRuns == 3             \* runs of the product-fetch effect in one session
MaxLoads == 2           \* loadFullInventory invocations in one session
MaxGenerations == 2     \* generateOutfitRecommendations requests in one session
MaxStored == 14         \* products of the longest list given to storeInventoryData
MaxRebuilds == 2        \* direct storeInventoryData calls

----------------------------------------------------------------------------
(* Optional values and strings *)

None == <<>>
Some(x) == <<x>>
IsSome(o) == Len(o) > 0
OrElse(o, d) == IF Len(o) > 0 THEN o[1] ELSE d

LowerChar(c) ==
    CASE c = "A" -> "a" [] c = "B" -> "b" [] c = "C" -> "c" [] c = "D" -> "d"
      [] c = "E" -> "e" [] c = "F" -> "f" [] c = "G" -> "g" [] c = "H" -> "h"
      [] c = "I" -> "i" [] c = "J" -> "j" [] c = "K" -> "k" [] c = "L" -> "l"
      [] c = "M" -> "m" [] c = "N" -> "n" [] c = "O" -> "o" [] c = "P" -> "p"
      [] c = "Q" -> "q" [] c = "R" -> "r" [] c = "S" -> "s" [] c = "T" -> "t"
      [] c = "U" -> "u" [] c = "V" -> "v" [] c = "W" -> "w" [] c = "X" -> "x"
      [] c = "Y" -> "y" [] c = "Z" -> "z" [] OTHER -> c

\* String.prototype.toLowerCase
toLowerCase(s) == [i \in 1..Len(s) |-> LowerChar(s[i])]

\* String.prototype.includes
includes(s, q) == \E i \in 0..(Len(s) - Len(q)) : SubSeq(s, i + 1, i + Len(q)) = q

\* Array.prototype.some over an array of strings
someIncludes(tags, q) == \E k \in 1..Len(tags) : includes(toLowerCase(tags[k]), q)

----------------------------------------------------------------------------
(* Mock catalog and mock filter *)

MOCK_PRODUCTS == <<
    [id |-> "gid://shopify/Product/1",
     title |-> <<"S", "t", "r", "i", "d", "e", "R", "u", "n", "n", "e", "r", " ", "S", "n", "e", "a", "k", "e", "r">>,
     price |-> 8999, image |-> "https://placehold.co/480x600?text=StrideRunner",
     tags |-> << <<"s", "n", "e", "a", "k", "e", "r", "s">>, <<"r", "u", "n", "n", "i", "n", "g">>,
                 <<"b", "r", "e", "a", "t", "h", "a", "b", "l", "e">> >>,
     rating |-> Some(46), features |-> <<"Mesh upper", "Cushion midsole", "Rubber outsole">>,
     colors |-> <<"Black", "White", "Volt">>, inventory |-> 27, variantId |-> None],
    [id |-> "gid://shopify/Product/2",
     title |-> <<"C", "l", "o", "u", "d", "L", "i", "t", "e", " ", "T", "r", "a", "i", "n", "e", "r">>,
     price |-> 9900, image |-> "https://placehold.co/480x600?text=CloudLite",
     tags |-> << <<"s", "n", "e", "a", "k", "e", "r", "s">>, <<"t", "r", "a", "i", "n", "i", "n", "g">>,
                 <<"l", "i", "g", "h", "t", "w", "e", "i", "g", "h", "t">> >>,
     rating |-> Some(44), features |-> <<"Knit upper", "Responsive foam", "Heel loop">>,
     colors |-> <<"Blue", "Grey">>, inventory |-> 11, variantId |-> None],
    [id |-> "gid://shopify/Product/3",
     title |-> <<"U", "r", "b", "a", "n", "F", "l", "e", "x", " ", "H", "i", "g", "h", "-", "T", "o", "p">>,
     price |-> 7950, image |-> "https://placehold.co/480x600?text=UrbanFlex",
     tags |-> << <<"s", "n", "e", "a", "k", "e", "r", "s">>,
                 <<"s", "t", "r", "e", "e", "t", "w", "e", "a", "r">> >>,
     rating |-> Some(41), features |-> <<"Canvas", "Padded collar", "Grippy sole">>,
     colors |-> <<"Black", "Red">>, inventory |-> 42, variantId |-> None] >>

\* mutant: the filter compares without lower-casing the title and the tags
mockFetchProducts_caseSensitive(text) ==
    LET q == toLowerCase(text)
        Test(p) == includes(p.title, q) \/ (\E k \in 1..Len(p.tags) : includes(p.tags[k], q))
    IN  IF q = <<>> THEN MOCK_PRODUCTS ELSE SelectSeq(MOCK_PRODUCTS, Test)

mockFetchProducts(text) ==
    LET q == toLowerCase(text)
        Test(p) == includes(toLowerCase(p.title), q) \/ someIncludes(p.tags, q)
    IN  IF q = <<>> THEN MOCK_PRODUCTS ELSE SelectSeq(MOCK_PRODUCTS, Test)

\* the query texts drawn as inputs
Queries == {
    <<>>, <<"s">>, <<"S", "N", "E", "A", "K">>, <<"R", "u", "n">>,
    <<"h", "i", "g", "h", "-", "t", "o", "p">>, <<"x", "y", "z">>,
    <<"e", "r", " ", "t">>, <<" ">>, <<"t", "r", "a", "i", "n", "i", "n", "g">>,
    <<"l", "i", "n", "e", "n">> }

----------------------------------------------------------------------------
(* Remote storefront records (GraphQL product nodes) *)

LinenShirt ==
    [id |-> "gid://shopify/Product/101",
     title |-> <<"L", "i", "n", "e", "n", " ", "S", "h", "i", "r", "t">>,
     tags |-> Some(<< <<"l", "i", "n", "e", "n">>, <<"S", "u", "m", "m", "e", "r">> >>),
     totalInventory |-> Some(5),
     images |-> <<"https://cdn.shopify.com/linen.jpg">>,
     variants |-> << [id |-> "gid://shopify/ProductVariant/1011", amount |-> Some(4500)] >>]

\* a node with every optional field missing
WoolCap ==
    [id |-> "gid://shopify/Product/102",
     title |-> <<"W", "o", "o", "l", " ", "C", "a", "p">>,
     tags |-> None, totalInventory |-> None, images |-> <<>>, variants |-> <<>>]

\* another snapshot of the first product: sold out, no image, no price
LinenShirtSoldOut ==
    [id |-> "gid://shopify/Product/101",
     title |-> <<"L", "i", "n", "e", "n", " ", "S", "h", "i", "r", "t">>,
     tags |-> Some(<< <<"l", "i", "n", "e", "n">> >>),
     totalInventory |-> Some(0),
     images |-> <<>>,
     variants |-> << [id |-> "gid://shopify/ProductVariant/1012", amount |-> None] >>]

RemoteNodes == {LinenShirt, WoolCap, LinenShirtSoldOut}

\* an edge of a response: { node } with the node possibly missing
RemoteEdges == {[node |-> Some(n)] : n \in RemoteNodes} \cup {[node |-> None]}

\* the edges of the shop's own listing: the same product may be listed twice
ShopEdges == {[node |-> Some(LinenShirt)], [node |-> Some(WoolCap)]}

RECURSIVE SeqsUpTo(_, _)
SeqsUpTo(S, n) ==
    IF n = 0 THEN {<<>>}
    ELSE LET shorter == SeqsUpTo(S, n - 1)
         IN  shorter \cup {Append(s, x) : s \in {t \in shorter : Len(t) = n - 1}, x \in S}

\* n.variants?.edges?.[0]?.node?.price?.amount ?? 0, as cents
firstVariantAmount(n) ==
    IF Len(n.variants) = 0 THEN 0 ELSE OrElse(n.variants[1].amount, 0)

firstVariantId(n) ==
    IF Len(n.variants) = 0 THEN None ELSE Some(n.variants[1].id)

firstImageUrl(n) ==
    IF Len(n.images) = 0 THEN "https://placehold.co/480x600?text=No+Image" ELSE n.images[1]

\* the record that fetchStorefrontProducts maps a node to
mapStorefrontNode(n) ==
    [id |-> n.id, title |-> n.title, price |-> firstVariantAmount(n),
     image |-> firstImageUrl(n), tags |-> OrElse(n.tags, <<>>), rating |-> Some(45),
     features |-> <<>>, colors |-> <<"Default">>,
     inventory |-> OrElse(n.totalInventory, 0), variantId |-> firstVariantId(n)]

----------------------------------------------------------------------------
(* Catalog client: fetchStorefrontProducts *)

\* what the request to the /api/shopify proxy can come to
ProxyOutcomes ==
    {[kind |-> "networkError", errors |-> FALSE, edges |-> None]}
    \cup {[kind |-> k, errors |-> FALSE, edges |-> None] :
            k \in {"status400", "status500", "status500NoJson", "badJson", "nullBody"}}
    \cup {[kind |-> "ok", errors |-> e, edges |-> None] : e \in BOOLEAN}
    \cup {[kind |-> "ok", errors |-> e, edges |-> Some(es)] :
            e \in BOOLEAN, es \in SeqsUpTo(RemoteEdges, MaxEdges)}

\* mutant: the mock filter result is appended to the mapped records
fsTryBody_padsWithMock(text, outcome) ==
    IF outcome.kind # "ok" THEN [threw |-> TRUE, value |-> <<>>]
    ELSE LET edges == OrElse(outcome.edges, <<>>)
         IN  IF \E i \in 1..Len(edges) : ~IsSome(edges[i].node)
             THEN [threw |-> TRUE, value |-> <<>>]
             ELSE [threw |-> FALSE,
                   value |-> [i \in 1..Len(edges) |-> mapStorefrontNode(edges[i].node[1])]
                             \o mockFetchProducts(text)]

\* the body of the try block: [threw, value]
fsTryBody(text, outcome) ==
    CASE outcome.kind = "networkError" -> [threw |-> TRUE, value |-> <<>>]     \* await fetch rejects
      [] outcome.kind \in {"status400", "status500", "status500NoJson"} ->
                                          [threw |-> TRUE, value |-> <<>>]     \* !res.ok: throw new Error
      [] outcome.kind = "badJson" ->      [threw |-> TRUE, value |-> <<>>]     \* await res.json() rejects
      [] outcome.kind = "nullBody" ->     [threw |-> TRUE, value |-> <<>>]     \* data.errors of null
      [] OTHER ->
            LET edges == OrElse(outcome.edges, <<>>)
            IN  IF \E i \in 1..Len(edges) : ~IsSome(edges[i].node)
                THEN [threw |-> TRUE, value |-> <<>>]                           \* n.id of undefined
                ELSE LET mapped == [i \in 1..Len(edges) |-> mapStorefrontNode(edges[i].node[1])]
                     IN  [threw |-> FALSE,
                          value |-> IF Len(mapped) > 0 THEN mapped ELSE mockFetchProducts(text)]

\* mutant: the status check sits outside the try block, so its Error reaches the caller
fetchStorefrontProducts_statusEscapes(text, domain, token, outcome) ==
    IF domain = "" \/ token = ""
    THEN [raised |-> FALSE, requests |-> 0, value |-> mockFetchProducts(text)]
    ELSE IF outcome.kind \in {"status400", "status500", "status500NoJson"}
         THEN [raised |-> TRUE, requests |-> 1, value |-> <<>>]
         ELSE LET body == fsTryBody(text, outcome)
              IN  [raised |-> FALSE, requests |-> 1,
                   value |-> IF body.threw THEN mockFetchProducts(text) ELSE body.value]

\* mutant: the guard delegates to the mock filter only when both credentials are absent
fetchStorefrontProducts_bothAbsent(text, domain, token, outcome) ==
    IF domain = "" /\ token = ""
    THEN [raised |-> FALSE, requests |-> 0, value |-> mockFetchProducts(text)]
    ELSE LET body == fsTryBody(text, outcome)
         IN  [raised |-> FALSE, requests |-> 1,
              value |-> IF body.threw THEN mockFetchProducts(text) ELSE body.value]

\* [raised, requests, value]: whether the call raised, the proxy requests it
\* issued and the list it returned
fetchStorefrontProducts(text, domain, token, outcome) ==
    IF domain = "" \/ token = ""
    THEN [raised |-> FALSE, requests |-> 0, value |-> mockFetchProducts(text)]
    ELSE LET body == fsTryBody(text, outcome)
         IN  [raised |-> FALSE, requests |-> 1,
              value |-> IF body.threw THEN mockFetchProducts(text) ELSE body.value]

Credentials == {"", "demo-shop.myshopify.com"}
Tokens == {"", "shpat_demo"}

\* The arguments and the proxy outcome of a call are drawn in the initial
\* state; the action makes the call and records what it returned.
CallFetchStorefrontProducts ==
    /\ ~fsCall.called
    /\ fsCall' = [fsCall EXCEPT !.called = TRUE,
                    !.ret = fetchStorefrontProducts(fsCall.query, fsCall.shopDomain,
                                                    fsCall.storefrontToken, fsCall.outcome)]
    /\ UNCHANGED <<mockCall, cartVars, credentialVars, outfitVars, answerVars, effectVars, indexVars, inventoryVars>>

CallMockFetchProducts ==
    /\ ~mockCall.called
    /\ mockCall' = [mockCall EXCEPT !.called = TRUE, !.ret = mockFetchProducts(mockCall.query)]
    /\ UNCHANGED <<fsCall, cartVars, credentialVars, outfitVars, answerVars, effectVars, indexVars, inventoryVars>>

NoReturn == [raised |-> FALSE, requests |-> 0, value |-> <<>>]

IdleCatalogVars ==
    /\ fsCall = [called |-> FALSE, query |-> <<>>, shopDomain |-> "", storefrontToken |-> "",
                 outcome |-> [kind |-> "networkError", errors |-> FALSE, edges |-> None],
                 ret |-> NoReturn]
    /\ mockCall = [called |-> FALSE, query |-> <<>>, ret |-> <<>>]

InitCatalogVars ==
    /\ \E q \in Queries, d \in Credentials, t \in Tokens, o \in ProxyOutcomes :
          fsCall = [called |-> FALSE, query |-> q, shopDomain |-> d, storefrontToken |-> t,
                    outcome |-> o, ret |-> NoReturn]
    /\ mockCall = [called |-> FALSE, query |-> fsCall.query, ret |-> <<>>]

----------------------------------------------------------------------------
(* Cart calculator *)

\* Array.prototype.find by id: the first element with that id, if any
findById(list, id) ==
    IF \E i \in 1..Len(list) : list[i].id = id
    THEN Some(list[CHOOSE i \in 1..Len(list) :
                     /\ list[i].id = id
                     /\ \A j \in 1..(i - 1) : list[j].id # id])
    ELSE None

\* one step of the reduce callback
subtotalStep(sum, entry, list) ==
    LET found == findById(list, entry.id)
        p == IF IsSome(found) THEN found ELSE findById(MOCK_PRODUCTS, entry.id)
    IN  sum + (IF IsSome(p) THEN p[1].price * entry.qty ELSE 0)

RECURSIVE reduceSubtotal(_, _, _, _)
reduceSubtotal(entries, k, sum, list) ==
    IF k > Len(entries) THEN sum
    ELSE reduceSubtotal(entries, k + 1, subtotalStep(sum, entries[k], list), list)

\* mutant: the lookup in the mock catalog is missing
computeSubtotal_noMockLookup(list, entries) ==
    LET Price(e) == IF IsSome(findById(list, e.id)) THEN findById(list, e.id)[1].price * e.qty ELSE 0
        F[k \in 0..Len(entries)] == IF k = 0 THEN 0 ELSE F[k - 1] + Price(entries[k])
    IN  F[Len(entries)]

\* Object.entries(cart).reduce(...): the cart is its entries in insertion order
computeSubtotal(list, entries) == reduceSubtotal(entries, 1, 0, list)

\* mutant: the quantity is set to 1 whatever the entry held
addToCartEntries_setsOne(entries, id) ==
    IF \E k \in 1..Len(entries) : entries[k].id = id
    THEN [k \in 1..Len(entries) |->
            IF entries[k].id = id THEN [id |-> id, qty |-> 1] ELSE entries[k]]
    ELSE Append(entries, [id |-> id, qty |-> 1])

\* { ...c, [id]: (c[id] || 0) + 1 }
addToCartEntries(entries, id) ==
    IF \E k \in 1..Len(entries) : entries[k].id = id
    THEN [k \in 1..Len(entries) |->
            IF entries[k].id = id THEN [id |-> id, qty |-> entries[k].qty + 1] ELSE entries[k]]
    ELSE Append(entries, [id |-> id, qty |-> 0 + 1])

\* the products a displayed list is drawn from: two mock products, a live
\* product carrying the id of a mock product at another price, a live product
DisplayableProducts == {
    MOCK_PRODUCTS[1], MOCK_PRODUCTS[2],
    [id |-> "gid://shopify/Product/1", title |-> <<"S", "a", "l", "e">>, price |-> 1000,
     image |-> "https://cdn.shopify.com/sale.jpg", tags |-> <<>>, rating |-> Some(45),
     features |-> <<>>, colors |-> <<"Default">>, inventory |-> 0, variantId |-> None],
    [id |-> "gid://shopify/Product/101",
     title |-> <<"L", "i", "n", "e", "n", " ", "S", "h", "i", "r", "t">>, price |-> 4500,
     image |-> "https://cdn.shopify.com/linen.jpg",
     tags |-> << <<"l", "i", "n", "e", "n">>, <<"S", "u", "m", "m", "e", "r">> >>,
     rating |-> Some(45), features |-> <<>>, colors |-> <<"Default">>, inventory |-> 5,
     variantId |-> Some("gid://shopify/ProductVariant/1011")] }

ProductLists == SeqsUpTo(DisplayableProducts, MaxListLen)

\* the "Add" button of a displayed product card
addToCart(id) ==
    /\ \E i \in 1..Len(products) : products[i].id = id
    /\ \A k \in 1..Len(cart) : cart[k].id = id => cart[k].qty < MaxQty
    /\ addCalls < MaxAdds
    /\ cart' = addToCartEntries(cart, id)
    /\ addCalls' = addCalls + 1
    /\ subtotal' = computeSubtotal(products, cart')
    /\ UNCHANGED <<products, catalogVars, credentialVars, outfitVars, answerVars, effectVars, indexVars, inventoryVars>>

\* setProducts(list): the displayed list is replaced (a fetch effect, a filter)
SetProducts ==
    /\ \E list \in ProductLists \ {products} :
          /\ products' = list
          /\ subtotal' = computeSubtotal(list, cart)
    /\ UNCHANGED <<cart, addCalls, catalogVars, credentialVars, outfitVars, answerVars, effectVars, indexVars, inventoryVars>>

----------------------------------------------------------------------------
(* Inventory index: the module-level inventoryStore and its operations *)

\* a Map as its entries [key, value] in insertion order
mapHas(m, key) == \E i \in 1..Len(m) : m[i].key = key
mapGet(m, key) ==
    IF mapHas(m, key) THEN Some(m[CHOOSE i \in 1..Len(m) : m[i].key = key].value) ELSE None
mapSet(m, key, value) ==
    IF mapHas(m, key)
    THEN [i \in 1..Len(m) |-> IF m[i].key = key THEN [key |-> key, value |-> value] ELSE m[i]]
    ELSE Append(m, [key |-> key, value |-> value])
mapValues(m) == [i \in 1..Len(m) |-> m[i].value]

EmptyStore ==
    [products |-> <<>>, categories |-> <<>>, tags |-> <<>>,
     lastUpdated |-> None, isLoading |-> FALSE, totalCount |-> 0]

\* mutant: the category index is not cleared
clearStore_keepsCategories(store) == [store EXCEPT !.products = <<>>, !.tags = <<>>]

\* mutant: the tag index is not cleared
clearStore_keepsTags(store) == [store EXCEPT !.products = <<>>, !.categories = <<>>]

\* storeInventoryData, the three clear() calls
clearStore(store) == [store EXCEPT !.products = <<>>, !.categories = <<>>, !.tags = <<>>]

\* mutant: the id is put at the front of the list of its label
pushToIndex_front(index, key, id) == mapSet(index, key, <<id>> \o OrElse(mapGet(index, key), <<>>))

\* get(key) || [], push(id), set(key, list)
pushToIndex(index, key, id) == mapSet(index, key, Append(OrElse(mapGet(index, key), <<>>), id))

RECURSIVE indexTags(_, _, _, _)
indexTags(index, tagList, k, id) ==
    IF k > Len(tagList) THEN index
    ELSE indexTags(pushToIndex(index, tagList[k], id), tagList, k + 1, id)

\* storeInventoryData, the body of products.forEach
storeProduct(store, product) ==
    [store EXCEPT
        !.products = mapSet(@, product.id, product),
        !.categories = IF product.productType # <<>>
                       THEN pushToIndex(@, product.productType, product.id) ELSE @,
        !.tags = indexTags(@, product.tags, 1, product.id)]

\* mutant: the total count is taken from the primary store instead of the list
finishStore_countsStore(store, list, now) ==
    [store EXCEPT !.totalCount = Len(store.products), !.lastUpdated = Some(now),
                  !.isLoading = FALSE]

\* storeInventoryData, the three assignments after the loop
finishStore(store, list, now) ==
    [store EXCEPT !.totalCount = Len(list), !.lastUpdated = Some(now), !.isLoading = FALSE]

RECURSIVE storeAll(_, _, _)
storeAll(store, list, k) ==
    IF k > Len(list) THEN store ELSE storeAll(storeProduct(store, list[k]), list, k + 1)

\* storeInventoryData as one call
storeInventoryData(store, list, now) == finishStore(storeAll(clearStore(store), list, 1), list, now)

\* mutant: storeInventoryData is an async function that awaits while it repopulates
storeInventoryDataYields_async == TRUE

\* storeInventoryData is a plain function with no await in it: once it has
\* started, no other task runs before it returns
storeInventoryDataYields == FALSE

getInventoryStats(store) ==
    [totalProducts |-> store.totalCount, categories |-> Len(store.categories),
     tags |-> Len(store.tags), lastUpdated |-> store.lastUpdated,
     isLoading |-> store.isLoading, cacheSize |-> Len(store.products)]

\* ids.map(id => products.get(id)).filter(Boolean)
productsOfIds(store, ids) ==
    LET got == [k \in 1..Len(ids) |-> mapGet(store.products, ids[k])]
        kept == SelectSeq(got, IsSome)
    IN  [k \in 1..Len(kept) |-> kept[k][1]]

getProductsByCategory(store, category) ==
    productsOfIds(store, OrElse(mapGet(store.categories, category), <<>>))

\* mutant: a tag that is not a key gives every stored product
getProductsByTag_unknownGivesAll(store, tag) ==
    IF mapHas(store.tags, tag) THEN productsOfIds(store, mapGet(store.tags, tag)[1])
    ELSE mapValues(store.products)

getProductsByTag(store, tag) ==
    productsOfIds(store, OrElse(mapGet(store.tags, tag), <<>>))

RECURSIVE trim(_)
trim(s) ==
    IF s = <<>> THEN s
    ELSE IF s[1] = " " THEN trim(Tail(s))
    ELSE IF s[Len(s)] = " " THEN trim(SubSeq(s, 1, Len(s) - 1))
    ELSE s

SearchLimit == 12

sliceFirst(list, n) == SubSeq(list, 1, IF Len(list) < n THEN Len(list) ELSE n)

\* mutant: only the title and the tags are searched
searchStoredInventory_titleAndTags(store, text) ==
    IF trim(text) = <<>> THEN sliceFirst(mapValues(store.products), SearchLimit)
    ELSE LET q == toLowerCase(text)
             Test(product) ==
                 \/ includes(toLowerCase(product.title), q)
                 \/ someIncludes(product.tags, q)
         IN  sliceFirst(SelectSeq(mapValues(store.products), Test), SearchLimit)

searchStoredInventory(store, text) ==
    IF trim(text) = <<>> THEN sliceFirst(mapValues(store.products), SearchLimit)
    ELSE LET q == toLowerCase(text)
             Test(product) ==
                 \/ includes(toLowerCase(product.title), q)
                 \/ someIncludes(product.tags, q)
                 \/ includes(toLowerCase(product.description), q)
                 \/ includes(toLowerCase(product.vendor), q)
                 \/ includes(toLowerCase(product.productType), q)
         IN  sliceFirst(SelectSeq(mapValues(store.products), Test), SearchLimit)

----------------------------------------------------------------------------
(* The index operations called directly, on lists of full ProductData records *)

ProductDataOf(id, title, tags, description, vendor, productType) ==
    [id |-> id, title |-> title, price |-> 2500,
     image |-> "https://placehold.co/480x600?text=No+Image", tags |-> tags,
     rating |-> Some(45), features |-> <<>>, colors |-> <<"Default">>, inventory |-> 3,
     variantId |-> None, description |-> description, vendor |-> vendor,
     productType |-> productType, createdAt |-> "", updatedAt |-> "",
     variants |-> <<>>, images |-> <<>>, metafields |-> <<>>]

OxfordShirt ==
    ProductDataOf("gid://shopify/Product/301", <<"O", "x", "f", "o", "r", "d", " ", "S", "h", "i", "r", "t">>, << <<"c", "o", "t", "t", "o", "n">> >>,
                  <<"C", "r", "i", "s", "p", " ", "o", "f", "f", "i", "c", "e", " ", "w", "e", "a", "r">>, <<"A", "c", "m", "e">>, <<"S", "h", "i", "r", "t", "s">>)

DenimJacket ==
    ProductDataOf("gid://shopify/Product/302", <<"D", "e", "n", "i", "m", " ", "J", "a", "c", "k", "e", "t">>, << <<"d", "e", "n", "i", "m">>, <<"C", "o", "t", "t", "o", "n">> >>,
                  <<>>, <<"N", "o", "r", "t", "h", "w", "i", "n", "d">>, <<"O", "u", "t", "e", "r", "w", "e", "a", "r">>)

\* a product without tags, description, vendor or product type
PlainTee ==
    ProductDataOf("gid://shopify/Product/303", <<"T", "e", "e">>, <<>>, <<>>, <<>>, <<>>)

\* a product whose tag list holds the same tag twice
WoolScarf ==
    ProductDataOf("gid://shopify/Product/304", <<"S", "c", "a", "r", "f">>,
                  << <<"w", "o", "o", "l">>, <<"w", "o", "o", "l">> >>, <<>>, <<>>, <<>>)

IdPool == << "gid://shopify/Product/201", "gid://shopify/Product/202", "gid://shopify/Product/203", "gid://shopify/Product/204", "gid://shopify/Product/205", "gid://shopify/Product/206", "gid://shopify/Product/207", "gid://shopify/Product/208", "gid://shopify/Product/209", "gid://shopify/Product/210", "gid://shopify/Product/211", "gid://shopify/Product/212", "gid://shopify/Product/213", "gid://shopify/Product/214", "gid://shopify/Product/215", "gid://shopify/Product/216" >>

\* a list longer than the search limit: every product a tee but the second,
\* every other one tagged, every fourth one with a product type
LongList ==
    [k \in 1..MaxStored |->
        ProductDataOf(IdPool[k],
                      IF k = 2 THEN <<"C", "a", "p">> ELSE <<"T", "e", "e">>,
                      IF k % 2 = 0 THEN << <<"c", "o", "t", "t", "o", "n">> >> ELSE <<>>,
                      <<>>, <<>>,
                      IF k % 4 = 1 THEN <<"S", "h", "i", "r", "t", "s">> ELSE <<>>)]

IndexLists == SeqsUpTo({OxfordShirt, DenimJacket, PlainTee, WoolScarf}, MaxListLen) \cup {LongList}

SearchTexts ==
    {<<>>, <<" ">>, <<"T", "E", "E">>, <<"c", "o", "t", "t", "o", "n">>, <<"A", "c", "m", "e">>, <<"o", "f", "f", "i", "c", "e">>, <<"S", "h", "i", "r", "t", "s">>, <<"z", "z", "z">>}

TagLabels == {<<"c", "o", "t", "t", "o", "n">>, <<"C", "o", "t", "t", "o", "n">>, <<"d", "e", "n", "i", "m">>, <<"w", "o", "o", "l">>, <<>>}
CategoryLabels == {<<"S", "h", "i", "r", "t", "s">>, <<"O", "u", "t", "e", "r", "w", "e", "a", "r">>, <<"H", "a", "t", "s">>, <<>>}

IdleIndexCall == [rebuilds |-> 0, op |-> "none", arg |-> <<>>, ret |-> <<>>]

IdleIndexVars == indexCall = IdleIndexCall

\* storeInventoryData(list)
Rebuild ==
    /\ indexCall.rebuilds < MaxRebuilds
    /\ \E list \in IndexLists :
          /\ inventoryStore' = storeInventoryData(inventoryStore, list, indexCall.rebuilds + 1)
          /\ rebuildInput' = [latest |-> list, previous |-> rebuildInput.latest]
    /\ indexCall' = [IdleIndexCall EXCEPT !.rebuilds = indexCall.rebuilds + 1]
    /\ UNCHANGED <<catalogVars, cartVars, credentialVars, outfitVars, answerVars, effectVars, query,
                   useStoredInventory, inventoryStats, chat, alertShown, shopCatalog, load,
                   loadsStarted, readerSaw>>

\* searchStoredInventory(text)
CallSearchStoredInventory ==
    /\ \E text \in SearchTexts :
          indexCall' = [indexCall EXCEPT !.op = "searchStoredInventory", !.arg = text,
                           !.ret = searchStoredInventory(inventoryStore, text)]
    /\ UNCHANGED <<catalogVars, cartVars, credentialVars, outfitVars, answerVars, effectVars, inventoryVars>>

\* getProductsByCategory(label)
CallGetProductsByCategory ==
    /\ \E label \in CategoryLabels :
          indexCall' = [indexCall EXCEPT !.op = "getProductsByCategory", !.arg = label,
                           !.ret = getProductsByCategory(inventoryStore, label)]
    /\ UNCHANGED <<catalogVars, cartVars, credentialVars, outfitVars, answerVars, effectVars, inventoryVars>>

\* getProductsByTag(label)
CallGetProductsByTag ==
    /\ \E label \in TagLabels :
          indexCall' = [indexCall EXCEPT !.op = "getProductsByTag", !.arg = label,
                           !.ret = getProductsByTag(inventoryStore, label)]
    /\ UNCHANGED <<catalogVars, cartVars, credentialVars, outfitVars, answerVars, effectVars, inventoryVars>>

----------------------------------------------------------------------------
(* Answer heuristic and translator: mockLLMAnswer and translate *)

\* A text that the code only builds and prefixes is a sequence of pieces, each
\* a string; a title is a sequence of one-character pieces.

\* mutant: the prefix has no space after the colon
translate_shortPrefix(text, lang) ==
    IF lang = "fr" THEN <<"F", "R", ":">> \o text
    ELSE IF lang = "es" THEN <<"E", "S", ":">> \o text
    ELSE IF lang = "hi" THEN <<"H", "I", ":">> \o text
    ELSE text

\* translate(text, lang)
translate(text, lang) ==
    IF lang = "fr" THEN <<"F", "R", ":", " ">> \o text
    ELSE IF lang = "es" THEN <<"E", "S", ":", " ">> \o text
    ELSE IF lang = "hi" THEN <<"H", "I", ":", " ">> \o text
    ELSE text

DigitChars == <<"0", "1", "2", "3", "4", "5", "6", "7", "8", "9">>

RECURSIVE natToString(_)
natToString(n) ==
    IF n < 10 THEN <<DigitChars[n + 1]>>
    ELSE natToString(n \div 10) \o <<DigitChars[(n % 10) + 1]>>

\* String(price) for a price held in cents: 8999 is 89.99, 7950 is 79.5, 9900 is 99
priceToString(cents) ==
    natToString(cents \div 100)
    \o (IF cents % 100 = 0 THEN <<>>
        ELSE <<".", DigitChars[((cents % 100) \div 10) + 1]>>
             \o (IF cents % 10 = 0 THEN <<>> ELSE <<DigitChars[(cents % 10) + 1]>>))

RECURSIVE join(_, _)
join(list, separator) ==
    IF list = <<>> THEN <<>>
    ELSE IF Len(list) = 1 THEN <<list[1]>>
    ELSE <<list[1], separator>> \o join(Tail(list), separator)

\* the value the comparator of sort takes for a product: rating ?? 0
ratingOrZero(p) == OrElse(p.rating, 0)

\* Array.prototype.sort with (a, b) => (b.rating ?? 0) - (a.rating ?? 0): a
\* stable insertion of each element behind those that do not rate lower
RECURSIVE sortByRatingDesc(_)
sortByRatingDesc(list) ==
    IF list = <<>> THEN <<>>
    ELSE LET sorted == sortByRatingDesc(SubSeq(list, 1, Len(list) - 1))
             x == list[Len(list)]
             ahead == SelectSeq(sorted, LAMBDA y : ratingOrZero(y) >= ratingOrZero(x))
             behind == SelectSeq(sorted, LAMBDA y : ratingOrZero(y) < ratingOrZero(x))
         IN  ahead \o <<x>> \o behind

PriceCeiling == 10000

NothingFound == <<"I couldn't find an item under that budget in stock.">>

\* mutant: sort is not stable: of equally rated products the later one comes first
mockLLMAnswer_lastOfEquals(list, lang) ==
    LET affordable == SelectSeq(list, LAMBDA p : p.price <= PriceCeiling)
        top == {i \in 1..Len(affordable) :
                   \A j \in 1..Len(affordable) :
                       ratingOrZero(affordable[j]) <= ratingOrZero(affordable[i])}
        best == affordable[CHOOSE i \in top : \A j \in top : j <= i]
    IN  translate(IF affordable = <<>> THEN NothingFound
                  ELSE <<"Best under budget: ">> \o best.title \o <<" ($">>
                       \o priceToString(best.price) \o <<"). Features: ">>
                       \o join(sliceFirst(best.features, 2), ", ") \o <<".">>,
                  lang)

\* mockLLMAnswer(prompt, products, lang); the prompt is not read
mockLLMAnswer(list, lang) ==
    LET affordable == SelectSeq(list, LAMBDA p : p.price <= PriceCeiling)
        sorted == sortByRatingDesc(affordable)
        best == sorted[1]
    IN  translate(IF sorted = <<>> THEN NothingFound
                  ELSE <<"Best under budget: ">> \o best.title \o <<" ($">>
                       \o priceToString(best.price) \o <<"). Features: ">>
                       \o join(sliceFirst(best.features, 2), ", ") \o <<".">>,
                  lang)

AnswerProduct(id, title, price, rating, features) ==
    [id |-> id, title |-> title, price |-> price, image |-> "", tags |-> <<>>,
     rating |-> rating, features |-> features, colors |-> <<"Default">>, inventory |-> 1,
     variantId |-> None]

\* products beside the mock ones: one over the ceiling with the best rating,
\* one without rating, one at the ceiling that rates like the first mock product
AnswerProducts ==
    {MOCK_PRODUCTS[1], MOCK_PRODUCTS[2], MOCK_PRODUCTS[3],
     AnswerProduct("gid://shopify/Product/401", <<"P", "a", "r", "k", "a">>, 10001, Some(50), <<"Down">>),
     AnswerProduct("gid://shopify/Product/402", <<"S", "o", "c", "k", "s">>, 500, None, <<>>),
     AnswerProduct("gid://shopify/Product/403", <<"B", "o", "o", "t", "s">>, 10000, Some(46),
                   <<"Leather", "Welted", "Lined", "Lugged">>)}

AnswerLists == SeqsUpTo(AnswerProducts, MaxListLen) \cup {MOCK_PRODUCTS}

Languages == {"en", "fr", "es", "hi", "de", ""}

Texts == {<<>>, <<"H", "i">>, <<"F", "R", ":", " ", "H", "i">>}

IdleAnswerCall == [op |-> "none", products |-> <<>>, text |-> <<>>, lang |-> "en", ret |-> <<>>]

IdleAnswerVars == answerCall = IdleAnswerCall

\* the arguments are drawn in the initial state; the call is made once
InitAnswerVars ==
    \E list \in AnswerLists, text \in Texts, lang \in Languages :
        answerCall = [IdleAnswerCall EXCEPT !.products = list, !.text = text, !.lang = lang]

CallMockLLMAnswer ==
    /\ answerCall.op = "none"
    /\ answerCall' = [answerCall EXCEPT !.op = "mockLLMAnswer",
                         !.ret = mockLLMAnswer(answerCall.products, answerCall.lang)]
    /\ UNCHANGED <<catalogVars, cartVars, credentialVars, outfitVars, indexVars, effectVars, inventoryVars>>

CallTranslate ==
    /\ answerCall.op = "none"
    /\ answerCall' = [answerCall EXCEPT !.op = "translate",
                         !.ret = translate(answerCall.text, answerCall.lang)]
    /\ UNCHANGED <<catalogVars, cartVars, credentialVars, outfitVars, indexVars, effectVars, inventoryVars>>

----------------------------------------------------------------------------
(* Bulk catalog loader: fetchAllShopifyProducts and loadFullInventory *)

\* mutant: the loader fills the product type and the description
bulkProduct_typed(node) ==
    [id |-> node.id, title |-> node.title, price |-> firstVariantAmount(node),
     image |-> firstImageUrl(node), tags |-> OrElse(node.tags, <<>>), rating |-> Some(45),
     features |-> <<>>, colors |-> <<"Default">>,
     inventory |-> OrElse(node.totalInventory, 0), variantId |-> firstVariantId(node),
     description |-> <<"x", "y", "z">>, vendor |-> <<>>,
     productType |-> <<"H", "a", "t", "s">>,
     createdAt |-> "", updatedAt |-> "",
     variants |-> [k \in 1..Len(node.variants) |->
                     [id |-> node.variants[k].id, title |-> "",
                      price |-> OrElse(node.variants[k].amount, 0), inventory |-> 0,
                      sku |-> "", barcode |-> ""]],
     images |-> [k \in 1..Len(node.images) |-> [id |-> "", url |-> node.images[k], altText |-> ""]],
     metafields |-> <<>>]

\* the ProductData record that fetchAllShopifyProducts builds from a node
bulkProduct(node) ==
    [id |-> node.id, title |-> node.title, price |-> firstVariantAmount(node),
     image |-> firstImageUrl(node), tags |-> OrElse(node.tags, <<>>), rating |-> Some(45),
     features |-> <<>>, colors |-> <<"Default">>,
     inventory |-> OrElse(node.totalInventory, 0), variantId |-> firstVariantId(node),
     description |-> <<>>, vendor |-> <<>>, productType |-> <<>>,
     createdAt |-> "", updatedAt |-> "",
     variants |-> [k \in 1..Len(node.variants) |->
                     [id |-> node.variants[k].id, title |-> "",
                      price |-> OrElse(node.variants[k].amount, 0), inventory |-> 0,
                      sku |-> "", barcode |-> ""]],
     images |-> [k \in 1..Len(node.images) |-> [id |-> "", url |-> node.images[k], altText |-> ""]],
     metafields |-> <<>>]

\* the remote listing: products(first: PageSize, after: cursor) with its pageInfo;
\* a cursor is the position of the last record of the page it came with
serverPage(catalog, cursor) ==
    LET start == OrElse(cursor, 0)
        end == IF start + PageSize < Len(catalog) THEN start + PageSize ELSE Len(catalog)
    IN  [edges |-> SubSeq(catalog, start + 1, end),
         hasNextPage |-> Some(end < Len(catalog)),
         endCursor |-> IF end > start THEN Some(end) ELSE None]

\* a remote listing that reports another page whatever the cursor
endlessPage(catalog, cursor) ==
    LET page == serverPage(catalog, cursor)
    IN  [page EXCEPT !.hasNextPage = Some(TRUE),
                     !.endCursor = IF IsSome(page.endCursor) THEN page.endCursor ELSE cursor]

\* a 200 response whose data is null (GraphQL errors only)
NoDataBody == [edges |-> <<>>, hasNextPage |-> None, endCursor |-> None]

IdleLoad ==
    [pc |-> "idle", allProducts |-> <<>>, cursor |-> None, requests |-> 0, body |-> None,
     i |-> 0, returned |-> None,
     \* history: the pages received, whether a response had no data, whether the catch block ran
     served |-> <<>>, noData |-> FALSE, failed |-> FALSE,
     \* history: the cursor of each page request issued, and how many requests have settled
     sent |-> <<>>, answered |-> 0]

\* mutant: only the shop domain is looked at
CredentialsPresent_domainOnly == shopDomain # ""

\* !shopDomain || !storefrontToken, negated
CredentialsPresent == shopDomain # "" /\ storefrontToken # ""

\* no task starts while a synchronous section is running
EventLoopFree == load.pc # "storing" \/ storeInventoryDataYields

\* no reader ran in the step that led here
NoRead == [kind |-> "none", view |-> [products |-> <<>>, categories |-> <<>>, tags |-> <<>>],
           inputs |-> [latest |-> <<>>, previous |-> <<>>]]

SystemMessage(text, n) == [user |-> "System", text |-> text, n |-> n]

\* loadFullInventory with a credential missing: alert and return
LoadWithoutCredentials ==
    /\ EventLoopFree
    /\ readerSaw' = NoRead
    /\ ~inventoryStats.isLoading                  \* the button is disabled while loading
    /\ ~CredentialsPresent
    /\ alertShown # "Please set Shopify credentials first"
    /\ alertShown' = "Please set Shopify credentials first"
    /\ UNCHANGED <<catalogVars, cartVars, credentialVars, outfitVars, answerVars, effectVars, indexVars, query, useStoredInventory,
                   inventoryStats, inventoryStore, chat, shopCatalog, load, loadsStarted,
                   rebuildInput>>

\* loadFullInventory up to the first await: the loading flag, the stats
\* snapshot, and fetchAllShopifyProducts up to its first page request
StartLoad ==
    /\ EventLoopFree
    /\ readerSaw' = NoRead
    /\ ~inventoryStats.isLoading                  \* the button is disabled while loading
    /\ CredentialsPresent
    /\ loadsStarted < MaxLoads
    /\ loadsStarted' = loadsStarted + 1
    /\ inventoryStore' = [inventoryStore EXCEPT !.isLoading = TRUE]
    /\ inventoryStats' = getInventoryStats(inventoryStore')
    /\ load' = [IdleLoad EXCEPT !.pc = "fetching", !.requests = 1, !.sent = <<IdleLoad.cursor>>]
    /\ UNCHANGED <<catalogVars, cartVars, credentialVars, outfitVars, answerVars, effectVars, indexVars, query, useStoredInventory, chat,
                   alertShown, shopCatalog, rebuildInput>>

\* fetchAllShopifyProducts called with a credential absent: it returns []
\* before anything else
FetchAllWithoutCredentials ==
    /\ EventLoopFree
    /\ readerSaw' = NoRead
    /\ load.pc = "idle"
    /\ ~CredentialsPresent
    /\ load.returned = None
    /\ load' = [IdleLoad EXCEPT !.returned = Some(<<>>)]
    /\ UNCHANGED <<catalogVars, cartVars, credentialVars, outfitVars, answerVars, effectVars, indexVars, query, useStoredInventory,
                   inventoryStats, inventoryStore, chat, alertShown, shopCatalog,
                   loadsStarted, rebuildInput>>

\* mutant: a response without pageInfo counts as reporting another page
morePages_defaultTrue(body) == OrElse(body.hasNextPage, TRUE)

\* hasNextPage = data?.data?.products?.pageInfo?.hasNextPage ?? false
morePages(body) == OrElse(body.hasNextPage, FALSE)

\* mutant: the cursor stays what it was at the start
nextCursor_unchanged(body) == None

\* cursor = data?.data?.products?.pageInfo?.endCursor
nextCursor(body) == body.endCursor

\* mutant: a page replaces what was accumulated
pushEdges_replaces(accumulated, edges) ==
    [k \in 1..Len(edges) |-> bulkProduct(edges[k].node[1])]

\* edges.forEach(edge => allProducts.push(product))
pushEdges(accumulated, edges) ==
    accumulated \o [k \in 1..Len(edges) |-> bulkProduct(edges[k].node[1])]

\* mutant: the catch block returns what was accumulated
caughtResult_accumulated(accumulated) == accumulated

\* fetchAllShopifyProducts, the catch block: return []
caughtResult(accumulated) == <<>>

\* mutant: an empty result is stored like any other
LoadEndsEmpty_rebuilds(task) ==
    /\ inventoryStore' = clearStore(inventoryStore)
    /\ rebuildInput' = [latest |-> task.allProducts, previous |-> rebuildInput.latest]
    /\ load' = [task EXCEPT !.pc = "storing", !.i = 1]
    /\ UNCHANGED <<products, subtotal, useStoredInventory, inventoryStats, chat>>

\* mutant: the finally block does not reset the loading flag
LoadEndsEmpty_flagStays(task) ==
    /\ chat' = Append(chat, SystemMessage("Failed to load inventory. Check your Shopify credentials.", 0))
    /\ inventoryStore' = inventoryStore
    /\ inventoryStats' = getInventoryStats(inventoryStore')
    /\ load' = [task EXCEPT !.pc = "idle"]
    /\ UNCHANGED <<products, subtotal, useStoredInventory, rebuildInput>>

\* the rest of loadFullInventory once fetchAllShopifyProducts has returned an
\* empty list: the failure message and the finally block
LoadEndsEmpty(task) ==
    /\ chat' = Append(chat, SystemMessage("Failed to load inventory. Check your Shopify credentials.", 0))
    /\ inventoryStore' = [inventoryStore EXCEPT !.isLoading = FALSE]
    /\ inventoryStats' = getInventoryStats(inventoryStore')
    /\ load' = [task EXCEPT !.pc = "idle"]
    /\ UNCHANGED <<products, subtotal, useStoredInventory, rebuildInput>>

\* the rest of loadFullInventory once fetchAllShopifyProducts has returned a
\* non-empty list: storeInventoryData starts and clears the three structures
LoadEndsWithProducts(task) ==
    /\ inventoryStore' = clearStore(inventoryStore)
    /\ rebuildInput' = [latest |-> task.allProducts, previous |-> rebuildInput.latest]
    /\ load' = [task EXCEPT !.pc = "storing", !.i = 1]
    /\ UNCHANGED <<products, subtotal, useStoredInventory, inventoryStats, chat>>

\* fetchAllShopifyProducts returns `list` to loadFullInventory
FetchAllReturns(task, list) ==
    LET done == [task EXCEPT !.returned = Some(list), !.allProducts = list, !.body = None]
    IN  IF Len(list) > 0 THEN LoadEndsWithProducts(done) ELSE LoadEndsEmpty(done)

\* fetchAllShopifyProducts throws inside its try block
FetchAllCatches(task) ==
    FetchAllReturns([task EXCEPT !.failed = TRUE], caughtResult(task.allProducts))

\* the page request is answered with a success status
FetchResolvesOk ==
    /\ EventLoopFree
    /\ readerSaw' = NoRead
    /\ load.pc = "fetching"
    /\ \E body \in {serverPage(shopCatalog, load.cursor), NoDataBody} :
          load' = [load EXCEPT !.pc = "json", !.body = Some(body), !.answered = @ + 1]
    /\ UNCHANGED <<catalogVars, cartVars, credentialVars, outfitVars, answerVars, effectVars, indexVars, query, useStoredInventory,
                   inventoryStats, inventoryStore, chat, alertShown, shopCatalog,
                   loadsStarted, rebuildInput>>

\* the page request is answered with a page that reports another page,
\* whether the listing has one or not
FetchResolvesMore ==
    /\ EventLoopFree
    /\ readerSaw' = NoRead
    /\ load.pc = "fetching"
    /\ load.requests < MaxRequests
    /\ load' = [load EXCEPT !.pc = "json", !.answered = @ + 1,
                            !.body = Some(endlessPage(shopCatalog, load.cursor))]
    /\ UNCHANGED <<catalogVars, cartVars, credentialVars, outfitVars, answerVars, effectVars, indexVars, query, useStoredInventory,
                   inventoryStats, inventoryStore, chat, alertShown, shopCatalog,
                   loadsStarted, rebuildInput>>

\* the page request is answered with a non-success status: throw new Error
FetchResolvesNotOk ==
    /\ EventLoopFree
    /\ readerSaw' = NoRead
    /\ load.pc = "fetching"
    /\ FetchAllCatches([load EXCEPT !.answered = @ + 1])
    /\ UNCHANGED <<catalogVars, cart, addCalls, credentialVars, outfitVars, answerVars, effectVars, indexVars, query, alertShown, shopCatalog,
                   loadsStarted>>

\* the page request fails in transport: await fetch rejects
FetchRejects ==
    /\ EventLoopFree
    /\ readerSaw' = NoRead
    /\ load.pc = "fetching"
    /\ FetchAllCatches([load EXCEPT !.answered = @ + 1])
    /\ UNCHANGED <<catalogVars, cart, addCalls, credentialVars, outfitVars, answerVars, effectVars, indexVars, query, alertShown, shopCatalog,
                   loadsStarted>>

\* the body of the response cannot be read as JSON: await res.json() rejects
JsonRejects ==
    /\ EventLoopFree
    /\ readerSaw' = NoRead
    /\ load.pc = "json"
    /\ FetchAllCatches(load)
    /\ UNCHANGED <<catalogVars, cart, addCalls, credentialVars, outfitVars, answerVars, effectVars, indexVars, query, alertShown, shopCatalog,
                   loadsStarted>>

\* await res.json() resolves: the records of the page are pushed, hasNextPage
\* and cursor are taken from pageInfo, and the loop goes on or ends
JsonResolves ==
    /\ EventLoopFree
    /\ readerSaw' = NoRead
    /\ load.pc = "json"
    /\ LET body == load.body[1]
           malformed == \E k \in 1..Len(body.edges) : ~IsSome(body.edges[k].node)
           firstBad == CHOOSE k \in 1..Len(body.edges) :
                          /\ ~IsSome(body.edges[k].node)
                          /\ \A j \in 1..(k - 1) : IsSome(body.edges[j].node)
           hasNextPage == morePages(body)
       IN  IF malformed
           THEN \* node.id of undefined: the records before it were pushed
                FetchAllCatches([load EXCEPT
                    !.allProducts = pushEdges(@, SubSeq(body.edges, 1, firstBad - 1))])
                /\ UNCHANGED <<catalogVars, cart, addCalls, credentialVars, outfitVars, answerVars, effectVars, indexVars, query, alertShown,
                               shopCatalog, loadsStarted>>
           ELSE LET next == [load EXCEPT
                                !.allProducts = pushEdges(@, body.edges),
                                !.cursor = nextCursor(body),
                                !.served = IF IsSome(body.hasNextPage)
                                           THEN Append(@, body) ELSE @,
                                !.noData = @ \/ ~IsSome(body.hasNextPage)]
                IN  IF hasNextPage
                    THEN /\ load' = [next EXCEPT !.pc = "fetching", !.requests = @ + 1,
                                                 !.sent = Append(@, next.cursor),
                                                 !.body = None]
                         /\ UNCHANGED <<catalogVars, cartVars, credentialVars, outfitVars, answerVars, effectVars, indexVars, query,
                                        useStoredInventory, inventoryStats, inventoryStore,
                                        chat, alertShown, shopCatalog, loadsStarted,
                                        rebuildInput>>
                    ELSE /\ FetchAllReturns(next, next.allProducts)
                         /\ UNCHANGED <<catalogVars, cart, addCalls, credentialVars, outfitVars, answerVars, effectVars, indexVars, query, alertShown,
                                        shopCatalog, loadsStarted>>

\* storeInventoryData, one round of products.forEach
StoreNextProduct ==
    /\ load.pc = "storing"
    /\ readerSaw' = NoRead
    /\ load.i <= Len(load.allProducts)
    /\ inventoryStore' = storeProduct(inventoryStore, load.allProducts[load.i])
    /\ load' = [load EXCEPT !.i = @ + 1]
    /\ UNCHANGED <<catalogVars, cartVars, credentialVars, outfitVars, answerVars, effectVars, indexVars, query, useStoredInventory,
                   inventoryStats, chat, alertShown, shopCatalog, loadsStarted, rebuildInput>>

\* storeInventoryData ends, and loadFullInventory runs to its end: the stats
\* snapshot, cache mode, the displayed list, the chat message, the finally block
FinishLoad ==
    /\ load.pc = "storing"
    /\ readerSaw' = NoRead
    /\ load.i > Len(load.allProducts)
    /\ inventoryStore' = [finishStore(inventoryStore, load.allProducts, loadsStarted)
                             EXCEPT !.isLoading = FALSE]
    /\ inventoryStats' = getInventoryStats(inventoryStore')
    /\ useStoredInventory' = TRUE
    /\ products' = searchStoredInventory(inventoryStore', query)
    /\ subtotal' = computeSubtotal(products', cart)
    /\ chat' = Append(chat, SystemMessage("Loaded products into inventory cache", Len(load.allProducts)))
    /\ load' = [load EXCEPT !.pc = "idle"]
    /\ UNCHANGED <<catalogVars, cart, addCalls, credentialVars, outfitVars, answerVars, effectVars, indexVars, query, alertShown, shopCatalog,
                   loadsStarted, rebuildInput>>

----------------------------------------------------------------------------
(* Readers of the inventory store *)

StoreView(store) == [products |-> store.products, categories |-> store.categories,
                     tags |-> store.tags]

Observe(kind) == [kind |-> kind, view |-> StoreView(inventoryStore), inputs |-> rebuildInput]

CacheModeOn == useStoredInventory /\ inventoryStats.cacheSize > 0

\* a render of the component evaluates useState(getInventoryStats())
RenderReadsStats ==
    /\ EventLoopFree
    /\ readerSaw' = Observe("getInventoryStats")
    /\ readerSaw' # readerSaw
    /\ UNCHANGED <<catalogVars, cartVars, credentialVars, outfitVars, answerVars, effectVars, indexVars, query, useStoredInventory,
                   inventoryStats, inventoryStore, chat, alertShown, shopCatalog, load,
                   loadsStarted, rebuildInput>>

TypedQueries == {<<>>, <<"C", "A", "P">>}

\* the query input changes in cache mode: the product-fetch effect searches the store
TypeQueryInCacheMode ==
    /\ EventLoopFree
    /\ CacheModeOn
    /\ \E q \in TypedQueries \ {query} :
          /\ query' = q
          /\ products' = searchStoredInventory(inventoryStore, q)
    /\ subtotal' = computeSubtotal(products', cart)
    /\ readerSaw' = Observe("searchStoredInventory")
    /\ UNCHANGED <<catalogVars, cart, addCalls, credentialVars, outfitVars, answerVars, effectVars, indexVars, useStoredInventory, inventoryStats,
                   inventoryStore, chat, alertShown, shopCatalog, load, loadsStarted,
                   rebuildInput>>

TagQuery(tag) == <<"T", "a", "g", ":", " ">> \o tag

\* a tag button: filterByTag, then the product-fetch effect that the new query triggers
filterByTag(tag) ==
    /\ EventLoopFree
    /\ CacheModeOn                                \* the buttons are rendered in cache mode
    /\ mapHas(inventoryStore.tags, tag)
    /\ query' = TagQuery(tag)
    /\ products' = IF query' # query
                   THEN searchStoredInventory(inventoryStore, query')
                   ELSE getProductsByTag(inventoryStore, tag)
    /\ subtotal' = computeSubtotal(products', cart)
    /\ readerSaw' = Observe("getProductsByTag")
    /\ UNCHANGED <<catalogVars, cart, addCalls, credentialVars, outfitVars, answerVars, effectVars, indexVars, useStoredInventory, inventoryStats,
                   inventoryStore, chat, alertShown, shopCatalog, load, loadsStarted,
                   rebuildInput>>

\* the merchant removes the first product of the shop between two loads
ShopRemovesProduct ==
    /\ EventLoopFree
    /\ load.pc = "idle"
    /\ Len(shopCatalog) > 0
    /\ loadsStarted = 1
    /\ shopCatalog' = Tail(shopCatalog)
    /\ readerSaw' = NoRead
    /\ UNCHANGED <<catalogVars, cartVars, credentialVars, outfitVars, answerVars, effectVars, indexVars, query, useStoredInventory,
                   inventoryStats, inventoryStore, chat, alertShown, load, loadsStarted,
                   rebuildInput>>

----------------------------------------------------------------------------
(* Outfit recommender, the route: POST of outfit-recommendations *)

\* what the completion service may put in choices[0].message.content
ProseText == "I suggest the linen shirt with the wool cap."
FencedText == "(markdown fence) { primaryOutfit: ... } (markdown fence)"
OutfitsText == "{ primaryOutfit: { items: [Linen Shirt] ... }, alternativeOutfits: [], stylingTips: [Roll the sleeves] }"
NullText == "null"
CompletionTexts == {"", ProseText, FencedText, OutfitsText, NullText}

\* the value that OutfitsText denotes
StylistOutfits ==
    [primaryOutfit |->
        [items |-> << [id |-> "gid://shopify/Product/101", title |-> "Linen Shirt",
                       price |-> 4500, reason |-> "light fabric"] >>,
         totalCost |-> 4500, styleDescription |-> "Casual linen", occasion |-> "weekend"],
     alternativeOutfits |-> <<>>,
     stylingTips |-> <<"Roll the sleeves">>]

\* JSON.parse on the texts above: whether it returns, and the value (None is null)
JSONParse(text) ==
    CASE text = OutfitsText -> [ok |-> TRUE, value |-> Some(StylistOutfits)]
      [] text = NullText -> [ok |-> TRUE, value |-> None]
      [] OTHER -> [ok |-> FALSE, value |-> None]

\* the completion call: it throws, or answers without choices, or with a content
Completions ==
    {[kind |-> "throws", content |-> ""], [kind |-> "noChoices", content |-> ""]}
    \cup {[kind |-> "content", content |-> t] : t \in CompletionTexts}

\* mutant: the fallback has no styling tip
DegradedRecommendations_noTip ==
    [primaryOutfit |-> [items |-> <<>>, totalCost |-> 0,
                        styleDescription |-> "Unable to parse AI recommendations",
                        occasion |-> "general"],
     alternativeOutfits |-> <<>>,
     stylingTips |-> <<>>]

\* the fallback of the route when JSON.parse throws
DegradedRecommendations ==
    [primaryOutfit |-> [items |-> <<>>, totalCost |-> 0,
                        styleDescription |-> "Unable to parse AI recommendations",
                        occasion |-> "general"],
     alternativeOutfits |-> <<>>,
     stylingTips |-> <<"Try different search terms for better recommendations">>]

\* try { recommendations = JSON.parse(aiResponse) } catch { the fallback }
parseRecommendations(aiResponse) ==
    IF JSONParse(aiResponse).ok THEN JSONParse(aiResponse).value
    ELSE Some(DegradedRecommendations)

\* x || d on a number
orNumber(x, d) == IF x = 0 THEN d ELSE x

\* p.inventory || d, for a product that may come without the field
inventoryOr(p, d) == IF "inventory" \in DOMAIN p THEN orNumber(p.inventory, d) ELSE d

productSummary(list) ==
    [k \in 1..Len(list) |->
        [id |-> list[k].id, title |-> list[k].title, price |-> list[k].price,
         tags |-> list[k].tags, inventory |-> inventoryOr(list[k], 1),
         image |-> list[k].image, inStock |-> inventoryOr(list[k], 0) >= 0]]

\* a JSON body of the route; an absent field is None and an absent success is FALSE
ErrorBody(error, details) ==
    [success |-> FALSE, error |-> Some(error), details |-> details, query |-> None,
     recommendations |-> None, totalProducts |-> None]

SuccessBody(text, recommendations, n) ==
    [success |-> TRUE, error |-> None, details |-> None, query |-> Some(text),
     recommendations |-> recommendations, totalProducts |-> Some(n)]

HttpResponse(status, body) == [status |-> status, body |-> body]

NoAnswer == [raised |-> None, prompt |-> None, response |-> HttpResponse(0, None)]

\* the try block of POST: the exception it raises, if any, the prompt it sent
\* to the completion service, if any, and the response it returned otherwise
postTryBody(request, apiKeyConfigured, completion) ==
    IF ~request.readable
    THEN [NoAnswer EXCEPT !.raised = Some("Unexpected token in JSON")]
    ELSE IF ~apiKeyConfigured
    THEN [NoAnswer EXCEPT !.response =
             HttpResponse(400, Some(ErrorBody("OpenAI API key not configured", None)))]
    ELSE IF OrElse(request.query, <<>>) = <<>> \/ ~IsSome(request.products)
    THEN [NoAnswer EXCEPT !.response =
             HttpResponse(400, Some(ErrorBody("Missing query or products data", None)))]
    ELSE LET prompt == [query |-> request.query[1],
                        budget |-> IF OrElse(request.budget, 0) = 0 THEN None
                                   ELSE request.budget,
                        products |-> productSummary(request.products[1])]
             sent == [NoAnswer EXCEPT !.prompt = Some(prompt)]
         IN  IF completion.kind = "throws"
             THEN [sent EXCEPT !.raised = Some("Connection error.")]
             ELSE IF completion.kind = "noChoices" \/ completion.content = ""
             THEN [sent EXCEPT !.raised = Some("No response from OpenAI")]
             ELSE [sent EXCEPT !.response =
                      HttpResponse(200, Some(SuccessBody(request.query[1],
                                       parseRecommendations(completion.content),
                                       Len(request.products[1]))))]

\* POST: the try block, and the catch block that answers an exception
POST(request, apiKeyConfigured, completion) ==
    LET tried == postTryBody(request, apiKeyConfigured, completion)
    IN  IF IsSome(tried.raised)
        THEN [tried EXCEPT !.response =
                 HttpResponse(500, Some(ErrorBody("Failed to generate outfit recommendations",
                                                  tried.raised)))]
        ELSE tried

IdleRoute ==
    [handled |-> FALSE,
     request |-> [readable |-> FALSE, query |-> None, products |-> None, budget |-> None],
     apiKeyConfigured |-> FALSE, completion |-> [kind |-> "throws", content |-> ""],
     answer |-> NoAnswer]

----------------------------------------------------------------------------
(* Outfit recommender, the client: generateOutfitRecommendations *)

IdleOutfit ==
    [outfitQuery |-> <<>>, budget |-> None, outfitRecommendations |-> None,
     isGeneratingOutfit |-> FALSE, pc |-> "idle", generations |-> 0,
     sent |-> None, received |-> None,
     \* history: how the last request ended and the state when it started
     outcome |-> "none",
     before |-> [outfitRecommendations |-> None, chat |-> <<>>, products |-> <<>>]]

OutfitQueries == {<<>>, <<" ">>, <<"c", "a", "s", "u", "a", "l">>}
Budgets == {None, Some(100)}

\* onChange of the style text
SetOutfitQuery ==
    /\ \E text \in OutfitQueries \ {outfit.outfitQuery} :
          outfit' = [outfit EXCEPT !.outfitQuery = text]
    /\ UNCHANGED <<catalogVars, cartVars, credentialVars, indexVars, answerVars, effectVars, inventoryVars, route>>

\* onChange of the budget
SetBudget ==
    /\ \E b \in Budgets \ {outfit.budget} : outfit' = [outfit EXCEPT !.budget = b]
    /\ UNCHANGED <<catalogVars, cartVars, credentialVars, indexVars, answerVars, effectVars, inventoryVars, route>>

\* mutant: the size of the cache is not looked at
inventoryNotLoaded_modeOnly(cacheMode, cacheSize) == ~cacheMode

\* !useStoredInventory || inventoryStats.cacheSize === 0
inventoryNotLoaded(cacheMode, cacheSize) == ~cacheMode \/ cacheSize = 0

\* generateOutfitRecommendations up to its first await: the two guards with
\* their alerts, the flag, and the request
generateOutfitRecommendations ==
    /\ ~outfit.isGeneratingOutfit /\ useStoredInventory     \* the button is enabled
    /\ outfit.generations < MaxGenerations
    /\ IF trim(outfit.outfitQuery) = <<>>
       THEN /\ alertShown' = "Please describe the type of outfit you want"
            /\ UNCHANGED <<outfit, route>>
       ELSE IF inventoryNotLoaded(useStoredInventory, inventoryStats.cacheSize)
       THEN /\ alertShown' = "Please load full inventory first to get AI outfit recommendations"
            /\ UNCHANGED <<outfit, route>>
       ELSE /\ outfit' = [outfit EXCEPT
                             !.isGeneratingOutfit = TRUE,
                             !.pc = "awaitFetch",
                             !.generations = @ + 1,
                             !.sent = Some([readable |-> TRUE,
                                            query |-> Some(outfit.outfitQuery),
                                            products |-> Some(mapValues(inventoryStore.products)),
                                            budget |-> outfit.budget]),
                             !.received = None,
                             !.outcome = "pending",
                             !.before = [outfitRecommendations |-> outfit.outfitRecommendations,
                                         chat |-> chat, products |-> products]]
            /\ route' = IdleRoute
            /\ UNCHANGED alertShown
    /\ UNCHANGED <<catalogVars, cartVars, credentialVars, indexVars, answerVars, effectVars, query, useStoredInventory,
                   inventoryStats, inventoryStore, chat, shopCatalog, load, loadsStarted,
                   rebuildInput, readerSaw>>

\* the route handles the request of the client
RouteHandlesRequest ==
    /\ outfit.pc = "awaitFetch"
    /\ ~route.handled
    /\ \E apiKeyConfigured \in BOOLEAN, completion \in Completions :
          route' = [handled |-> TRUE, request |-> outfit.sent[1],
                    apiKeyConfigured |-> apiKeyConfigured, completion |-> completion,
                    answer |-> POST(outfit.sent[1], apiKeyConfigured, completion)]
    /\ UNCHANGED <<catalogVars, cartVars, credentialVars, indexVars, answerVars, effectVars, inventoryVars, outfit>>

\* products of a request whose inventory is positive, zero, negative (a
\* product oversold) and absent
StockLevels ==
    LET item(n) == [id |-> "gid://shopify/Product/401", title |-> <<"T", "e", "e">>,
                    price |-> 1500, tags |-> <<>>, image |-> "https://cdn.shopify.com/tee.jpg",
                    inventory |-> n]
    IN  <<item(5), item(0), item(0 - 3),
          [id |-> "gid://shopify/Product/402", title |-> <<"C", "a", "p">>, price |-> 900,
           tags |-> <<>>, image |-> "https://cdn.shopify.com/cap.jpg"]>>

\* requests of other clients of the route: an unreadable body, a missing or
\* empty query, a missing product list, an empty one, one of four stock levels
OtherRequests ==
    LET wellFormed == [readable |-> TRUE, query |-> Some(<<"c", "a", "s", "u", "a", "l">>),
                       products |-> Some(<<>>), budget |-> None]
    IN  {[wellFormed EXCEPT !.readable = FALSE], [wellFormed EXCEPT !.query = None],
         [wellFormed EXCEPT !.query = Some(<<>>)], [wellFormed EXCEPT !.products = None],
         wellFormed, [wellFormed EXCEPT !.products = Some(StockLevels)]}

\* the route handles the request of another client, before this one sends any
RouteHandlesOtherRequest ==
    /\ outfit.generations = 0
    /\ ~route.handled
    /\ \E request \in OtherRequests, apiKeyConfigured \in BOOLEAN, completion \in Completions :
          route' = [handled |-> TRUE, request |-> request,
                    apiKeyConfigured |-> apiKeyConfigured, completion |-> completion,
                    answer |-> POST(request, apiKeyConfigured, completion)]
    /\ UNCHANGED <<catalogVars, cartVars, credentialVars, indexVars, answerVars, effectVars, inventoryVars, outfit>>

\* answers that do not come from the route: a gateway error page, a success
\* status with a body that is not JSON, a success status with success false
OtherResponses ==
    {HttpResponse(502, None), HttpResponse(200, None),
     HttpResponse(200, Some(ErrorBody("Rate limit reached", None))),
     HttpResponse(200, Some([ErrorBody("", None) EXCEPT !.error = None]))}

\* mutant: the catch block stores the fallback recommendation
recommendationsAfterCatch_degraded(current) == Some(DegradedRecommendations)

\* the catch block does not call setOutfitRecommendations
recommendationsAfterCatch(current) == current

\* the catch block and the finally block of generateOutfitRecommendations
OutfitCatches(task, message) ==
    /\ chat' = Append(chat, [user |-> "AI Stylist",
                             text |-> "Sorry, I couldn't generate outfit recommendations.",
                             detail |-> message])
    /\ outfit' = [task EXCEPT
                     !.outfitRecommendations = recommendationsAfterCatch(@),
                     !.isGeneratingOutfit = FALSE, !.pc = "idle", !.outcome = "failed"]

\* await fetch rejects
OutfitFetchRejects ==
    /\ outfit.pc = "awaitFetch"
    /\ OutfitCatches(outfit, "Failed to fetch")
    /\ UNCHANGED <<catalogVars, cartVars, credentialVars, indexVars, answerVars, effectVars, query, useStoredInventory,
                   inventoryStats, inventoryStore, alertShown, shopCatalog, load,
                   loadsStarted, rebuildInput, readerSaw, route>>

\* await fetch resolves: if (!response.ok) throw
OutfitFetchResolves ==
    /\ outfit.pc = "awaitFetch"
    /\ \E response \in (IF route.handled /\ route.request = outfit.sent[1]
                        THEN {route.answer.response} ELSE {}) \cup OtherResponses :
          LET task == [outfit EXCEPT !.received = Some(response)]
          IN  IF response.status \in 200..299
              THEN outfit' = [task EXCEPT !.pc = "awaitJson"] /\ UNCHANGED chat
              ELSE OutfitCatches(task, <<"API error", response.status>>)
    /\ UNCHANGED <<catalogVars, cartVars, credentialVars, indexVars, answerVars, effectVars, query, useStoredInventory,
                   inventoryStats, inventoryStore, alertShown, shopCatalog, load,
                   loadsStarted, rebuildInput, readerSaw, route>>

\* await response.json() rejects
OutfitJsonRejects ==
    /\ outfit.pc = "awaitJson"
    /\ ~IsSome(outfit.received[1].body)
    /\ OutfitCatches(outfit, "Unexpected token in JSON")
    /\ UNCHANGED <<catalogVars, cartVars, credentialVars, indexVars, answerVars, effectVars, query, useStoredInventory,
                   inventoryStats, inventoryStore, alertShown, shopCatalog, load,
                   loadsStarted, rebuildInput, readerSaw, route>>

\* await response.json() resolves: data.success decides
OutfitJsonResolves ==
    /\ outfit.pc = "awaitJson"
    /\ IsSome(outfit.received[1].body)
    /\ LET data == outfit.received[1].body[1]
       IN  IF data.success
           THEN /\ outfit' = [outfit EXCEPT
                                 !.outfitRecommendations = data.recommendations,
                                 !.isGeneratingOutfit = FALSE, !.pc = "idle",
                                 !.outcome = "succeeded"]
                /\ chat' = Append(chat,
                      [user |-> "AI Stylist",
                       text |-> "I've analyzed your products and created perfect outfit recommendations",
                       n |-> Len(outfit.sent[1].products[1]),
                       detail |-> outfit.sent[1].query[1]])
           ELSE OutfitCatches(outfit, OrElse(data.error, "Failed to generate recommendations"))
    /\ UNCHANGED <<catalogVars, cartVars, credentialVars, indexVars, answerVars, effectVars, query, useStoredInventory,
                   inventoryStats, inventoryStore, alertShown, shopCatalog, load,
                   loadsStarted, rebuildInput, readerSaw, route>>

----------------------------------------------------------------------------
(* Initial states and specifications *)

----------------------------------------------------------------------------
(* The product-fetch effect: useEffect on query, credentials and cache mode *)

IdleFetchEffect ==
    [pending |-> <<>>, started |-> 0,
     \* history: the writer of the displayed list, the run of the effect if it
     \* was one, and the list that the writer got
     shown |-> [by |-> "useState", run |-> 0, got |-> MOCK_PRODUCTS]]

IdleEffectVars == fetchEffect = IdleFetchEffect

EffectQueries == TypedQueries \cup {<<"x", "y", "z">>}

\* what the proxy answers to a run of the effect
EffectOutcomes ==
    {[kind |-> "networkError", errors |-> FALSE, edges |-> None],
     [kind |-> "ok", errors |-> FALSE, edges |-> Some(<<>>)],
     [kind |-> "ok", errors |-> FALSE, edges |-> Some(<<[node |-> Some(WoolCap)]>>)]}

\* mutant: the result is displayed as it is
orMockProducts_asIs(res) == res

\* res && res.length ? res : MOCK_PRODUCTS
orMockProducts(res) == IF Len(res) > 0 THEN res ELSE MOCK_PRODUCTS

\* the render that follows a change of the dependencies, and the effect up to
\* its first await: the cache branch writes the list, the other branch calls
\* fetchStorefrontProducts and waits
RunFetchEffect(text, cacheMode, shownByHandler) ==
    LET n == fetchEffect.started + 1
    IN  IF cacheMode /\ inventoryStats.cacheSize > 0
        THEN /\ products' = searchStoredInventory(inventoryStore, text)
             /\ fetchEffect' = [fetchEffect EXCEPT
                                   !.started = n,
                                   !.shown = [by |-> "searchStoredInventory", run |-> n,
                                              got |-> searchStoredInventory(inventoryStore, text)]]
             /\ readerSaw' = Observe("searchStoredInventory")
        ELSE /\ products' = shownByHandler
             /\ fetchEffect' = [fetchEffect EXCEPT
                                   !.started = n,
                                   !.pending = Append(@, [run |-> n, query |-> text,
                                                          shopDomain |-> shopDomain,
                                                          storefrontToken |-> storefrontToken])]
             /\ readerSaw' = NoRead

\* onChange of the query input
TypeQuery ==
    /\ EventLoopFree
    /\ fetchEffect.started < MaxRuns
    /\ \E text \in EffectQueries \ {query} :
          /\ query' = text
          /\ RunFetchEffect(text, useStoredInventory, products)
    /\ subtotal' = computeSubtotal(products', cart)
    /\ UNCHANGED <<catalogVars, cart, addCalls, credentialVars, outfitVars, answerVars, indexVars,
                   useStoredInventory, inventoryStats, inventoryStore, chat, alertShown,
                   shopCatalog, load, loadsStarted, rebuildInput>>

\* the Use Cache / Use Live API button
ToggleCacheMode ==
    /\ EventLoopFree
    /\ fetchEffect.started < MaxRuns
    /\ useStoredInventory' = ~useStoredInventory
    /\ query' = <<>>
    /\ RunFetchEffect(<<>>, ~useStoredInventory, products)
    /\ subtotal' = computeSubtotal(products', cart)
    /\ UNCHANGED <<catalogVars, cart, addCalls, credentialVars, outfitVars, answerVars, indexVars,
                   inventoryStats, inventoryStore, chat, alertShown, shopCatalog, load,
                   loadsStarted, rebuildInput>>

\* a run of the effect gets the result of fetchStorefrontProducts, whichever
\* of the waiting runs it is, and displays it
FetchEffectCompletes ==
    /\ EventLoopFree
    /\ \E i \in 1..Len(fetchEffect.pending), outcome \in EffectOutcomes :
          LET run == fetchEffect.pending[i]
              res == fetchStorefrontProducts(run.query, run.shopDomain, run.storefrontToken,
                                             outcome)
          IN  /\ products' = IF res.raised THEN orMockProducts(mockFetchProducts(run.query))
                             ELSE orMockProducts(res.value)
              /\ fetchEffect' = [fetchEffect EXCEPT
                                    !.pending = SubSeq(@, 1, i - 1) \o SubSeq(@, i + 1, Len(@)),
                                    !.shown = [by |-> "fetchStorefrontProducts", run |-> run.run,
                                               got |-> res.value]]
    /\ readerSaw' = NoRead
    /\ subtotal' = computeSubtotal(products', cart)
    /\ UNCHANGED <<catalogVars, cart, addCalls, credentialVars, outfitVars, answerVars, indexVars,
                   query, useStoredInventory, inventoryStats, inventoryStore, chat, alertShown,
                   shopCatalog, load, loadsStarted, rebuildInput>>

KnownTags == UNION {{OrElse(n.tags, <<>>)[k] : k \in 1..Len(OrElse(n.tags, <<>>))} : n \in RemoteNodes}

InitialChat ==
    << [user |-> "AI Stylist",
        text |-> "Upload your photo and I'll help you try on clothes virtually!", n |-> 0] >>

IdleOutfitVars == outfit = IdleOutfit /\ route = IdleRoute

InitSessionVars ==
    /\ query = <<>>
    /\ useStoredInventory = FALSE
    /\ inventoryStore = EmptyStore
    /\ inventoryStats = getInventoryStats(EmptyStore)
    /\ chat = InitialChat
    /\ alertShown = ""
    /\ load = IdleLoad
    /\ loadsStarted = 0
    /\ rebuildInput = [latest |-> <<>>, previous |-> <<>>]
    /\ readerSaw = NoRead

IdleInventoryVars == InitSessionVars /\ shopCatalog = <<>>

IdleCredentialVars == shopDomain = "" /\ storefrontToken = ""

InitCartVars ==
    /\ products = MOCK_PRODUCTS
    /\ cart = <<>>
    /\ subtotal = 0
    /\ addCalls = 0

InitCatalog ==
    InitCatalogVars /\ InitCartVars /\ IdleCredentialVars /\ IdleInventoryVars /\ IdleOutfitVars
    /\ IdleIndexVars
    /\ IdleAnswerVars
    /\ IdleEffectVars

NextCatalog == CallFetchStorefrontProducts \/ CallMockFetchProducts

SpecCatalog == InitCatalog /\ [][NextCatalog]_vars

InitCart ==
    IdleCatalogVars /\ InitCartVars /\ IdleCredentialVars /\ IdleInventoryVars /\ IdleOutfitVars
    /\ IdleIndexVars
    /\ IdleAnswerVars
    /\ IdleEffectVars

NextCart == (\E id \in {p.id : p \in DisplayableProducts} : addToCart(id)) \/ SetProducts

SpecCart == InitCart /\ [][NextCart]_vars

InitInventory ==
    /\ IdleCatalogVars
    /\ InitCartVars
    /\ InitSessionVars
    /\ IdleOutfitVars
    /\ IdleIndexVars
    /\ IdleAnswerVars
    /\ IdleEffectVars
    /\ shopCatalog \in SeqsUpTo(ShopEdges, MaxCatalog)
    /\ shopDomain \in Credentials
    /\ storefrontToken \in Tokens

NextInventory ==
    \/ LoadWithoutCredentials
    \/ StartLoad
    \/ FetchResolvesOk
    \/ FetchResolvesNotOk
    \/ FetchRejects
    \/ JsonResolves
    \/ JsonRejects
    \/ StoreNextProduct
    \/ FinishLoad
    \/ RenderReadsStats
    \/ TypeQueryInCacheMode
    \/ (\E tag \in KnownTags : filterByTag(tag))
    \/ ShopRemovesProduct

SpecInventory == InitInventory /\ [][NextInventory]_vars

\* the lists a session may have loaded into the index: none, or the shop's two products
LoadedLists == {<<>>, <<bulkProduct(LinenShirt), bulkProduct(WoolCap)>>}

\* a session after its bulk load, if any, with cache mode on or switched off
InitOutfit ==
    /\ IdleCatalogVars
    /\ cart = <<>> /\ subtotal = 0 /\ addCalls = 0
    /\ shopDomain = "demo.myshopify.com" /\ storefrontToken = "token"
    /\ query = <<>>
    /\ alertShown = ""
    /\ load = IdleLoad
    /\ readerSaw = NoRead
    /\ IdleOutfitVars
    /\ IdleIndexVars
    /\ IdleAnswerVars
    /\ IdleEffectVars
    /\ \E list \in LoadedLists :
          /\ rebuildInput = [latest |-> list, previous |-> <<>>]
          /\ shopCatalog = [k \in 1..Len(list) |-> [node |-> Some(<<LinenShirt, WoolCap>>[k])]]
          /\ loadsStarted = (IF list = <<>> THEN 0 ELSE 1)
          /\ inventoryStore = (IF list = <<>> THEN EmptyStore
                               ELSE storeInventoryData(EmptyStore, list, 1))
          /\ products = (IF list = <<>> THEN MOCK_PRODUCTS
                         ELSE searchStoredInventory(inventoryStore, <<>>))
          /\ chat = (IF list = <<>> THEN InitialChat
                     ELSE Append(InitialChat,
                                 SystemMessage("Loaded products into inventory cache", Len(list))))
    /\ inventoryStats = getInventoryStats(inventoryStore)
    /\ useStoredInventory \in BOOLEAN

NextOutfit ==
    \/ SetOutfitQuery
    \/ SetBudget
    \/ generateOutfitRecommendations
    \/ RouteHandlesRequest
    \/ RouteHandlesOtherRequest
    \/ OutfitFetchRejects
    \/ OutfitFetchResolves
    \/ OutfitJsonRejects
    \/ OutfitJsonResolves

SpecOutfit == InitOutfit /\ [][NextOutfit]_vars

InitPaging ==
    /\ IdleCatalogVars
    /\ InitCartVars
    /\ InitSessionVars
    /\ IdleOutfitVars
    /\ IdleIndexVars
    /\ IdleAnswerVars
    /\ IdleEffectVars
    /\ shopCatalog \in SeqsUpTo(ShopEdges, MaxCatalog)
    /\ shopDomain = "demo.myshopify.com"
    /\ storefrontToken = "token"

\* a page request settles: the awaited fetch resolves or rejects
PageRequestSettles ==
    FetchResolvesOk \/ FetchResolvesMore \/ FetchResolvesNotOk \/ FetchRejects

\* the awaited res.json() settles
BodyReadSettles == JsonResolves \/ JsonRejects

NextPaging ==
    \/ StartLoad
    \/ FetchResolvesOk
    \/ FetchResolvesMore
    \/ FetchResolvesNotOk
    \/ FetchRejects
    \/ JsonResolves
    \/ JsonRejects
    \/ StoreNextProduct
    \/ FinishLoad

SpecPaging == InitPaging /\ [][NextPaging]_vars

\* every awaited promise settles, and the continuation of a settled promise
\* is run by the event loop
SpecPagingFair ==
    /\ SpecPaging
    /\ WF_vars(PageRequestSettles)
    /\ WF_vars(BodyReadSettles)
    /\ WF_vars(StoreNextProduct)
    /\ WF_vars(FinishLoad)

InitGuard ==
    /\ IdleCatalogVars
    /\ InitCartVars
    /\ InitSessionVars
    /\ IdleOutfitVars
    /\ IdleIndexVars
    /\ IdleAnswerVars
    /\ IdleEffectVars
    /\ shopCatalog \in SeqsUpTo(ShopEdges, MaxCatalog)
    /\ shopDomain \in Credentials
    /\ storefrontToken \in Tokens

NextGuard ==
    \/ LoadWithoutCredentials
    \/ FetchAllWithoutCredentials
    \/ StartLoad
    \/ FetchResolvesOk
    \/ FetchResolvesNotOk
    \/ FetchRejects
    \/ JsonResolves
    \/ JsonRejects
    \/ StoreNextProduct
    \/ FinishLoad

SpecGuard == InitGuard /\ [][NextGuard]_vars

\* a session with credentials, after its bulk load if any, whose first run of
\* the effect (empty query) is waiting for fetchStorefrontProducts
InitEffect ==
    /\ IdleCatalogVars
    /\ InitCartVars
    /\ shopDomain = "demo-shop.myshopify.com" /\ storefrontToken = "shpat_demo"
    /\ query = <<>>
    /\ alertShown = ""
    /\ load = IdleLoad
    /\ readerSaw = NoRead
    /\ IdleOutfitVars
    /\ IdleIndexVars
    /\ IdleAnswerVars
    /\ useStoredInventory = FALSE
    /\ fetchEffect = [IdleFetchEffect EXCEPT
                         !.started = 1,
                         !.pending = <<[run |-> 1, query |-> <<>>, shopDomain |-> shopDomain,
                                        storefrontToken |-> storefrontToken]>>]
    /\ \E list \in LoadedLists :
          /\ rebuildInput = [latest |-> list, previous |-> <<>>]
          /\ shopCatalog = [k \in 1..Len(list) |-> [node |-> Some(<<LinenShirt, WoolCap>>[k])]]
          /\ loadsStarted = (IF list = <<>> THEN 0 ELSE 1)
          /\ inventoryStore = (IF list = <<>> THEN EmptyStore
                               ELSE storeInventoryData(EmptyStore, list, 1))
          /\ chat = (IF list = <<>> THEN InitialChat
                     ELSE Append(InitialChat,
                                 SystemMessage("Loaded products into inventory cache", Len(list))))
    /\ inventoryStats = getInventoryStats(inventoryStore)

NextEffect ==
    \/ TypeQuery
    \/ ToggleCacheMode
    \/ FetchEffectCompletes
    \/ (\E tag \in KnownTags : filterByTag(tag))

SpecEffect == InitEffect /\ [][NextEffect]_vars

InitIndex ==
    /\ IdleCatalogVars
    /\ InitCartVars
    /\ IdleCredentialVars
    /\ IdleInventoryVars
    /\ IdleOutfitVars
    /\ IdleIndexVars
    /\ IdleAnswerVars
    /\ IdleEffectVars

NextIndex ==
    \/ Rebuild
    \/ CallSearchStoredInventory
    \/ CallGetProductsByCategory
    \/ CallGetProductsByTag

SpecIndex == InitIndex /\ [][NextIndex]_vars

InitAnswer ==
    /\ IdleCatalogVars
    /\ InitCartVars
    /\ IdleCredentialVars
    /\ IdleInventoryVars
    /\ IdleOutfitVars
    /\ IdleIndexVars
    /\ IdleEffectVars
    /\ InitAnswerVars

NextAnswer == CallMockLLMAnswer \/ CallTranslate

SpecAnswer == InitAnswer /\ [][NextAnswer]_vars

----------------------------------------------------------------------------
(* Claims about the cart calculator *)

\* the price an id resolves to: the first product of the list with that id,
\* otherwise the mock product with that id, otherwise nothing
ResolvedPrice(list, id) ==
    LET inList == {i \in 1..Len(list) : list[i].id = id}
        inMock == {i \in 1..Len(MOCK_PRODUCTS) : MOCK_PRODUCTS[i].id = id}
    IN  IF inList # {} THEN list[CHOOSE i \in inList : \A j \in inList : i <= j].price
        ELSE IF inMock # {} THEN MOCK_PRODUCTS[CHOOSE i \in inMock : TRUE].price
        ELSE 0

RECURSIVE SumOfLineTotals(_, _, _)
SumOfLineTotals(list, entries, rest) ==
    IF rest = {} THEN 0
    ELSE LET k == CHOOSE x \in rest : \A y \in rest : x >= y
         IN  ResolvedPrice(list, entries[k].id) * entries[k].qty
               + SumOfLineTotals(list, entries, rest \ {k})

\* C1: the subtotal is the sum over the cart entries (id, qty) of price * qty,
\* the price being that of the first listed product with the id, otherwise of
\* the mock product with the id, otherwise 0; the cart {A:2, B:1} over
\* A = 89.99 and B = 99.00 gives 278.98
C1_SubtotalIsSumOfLineTotals ==
    /\ subtotal = SumOfLineTotals(products, cart, 1..Len(cart))
    /\ (/\ products = <<MOCK_PRODUCTS[1], MOCK_PRODUCTS[2]>>
        /\ cart = << [id |-> "gid://shopify/Product/1", qty |-> 2],
                     [id |-> "gid://shopify/Product/2", qty |-> 1] >>)
       => subtotal = 27898

\* an id listed twice (the first one counts), an id found only in the mock
\* catalog and an id found nowhere, all in one cart
C1_Witness ==
    /\ Len(products) = 2
    /\ products[1].id = "gid://shopify/Product/1" /\ products[1].price = 1000
    /\ products[2] = MOCK_PRODUCTS[1]
    /\ {cart[k].id : k \in 1..Len(cart)} =
          {"gid://shopify/Product/1", "gid://shopify/Product/2", "gid://shopify/Product/101"}
    /\ \A k \in 1..Len(cart) : cart[k].qty = 2
    /\ subtotal = 2 * 1000 + 2 * 9900

----------------------------------------------------------------------------------------------------------------------------------------
(* Claims about the bulk catalog loader and the inventory index *)

\* the records of a sequence of pages, in page order
RECURSIVE RecordsOfPages(_)
RecordsOfPages(pages) ==
    IF pages = <<>> THEN <<>>
    ELSE [k \in 1..Len(pages[1].edges) |-> bulkProduct(pages[1].edges[k].node[1])]
         \o RecordsOfPages(Tail(pages))

\* pages 1..n-1 report hasNextPage = true and page n reports false
IsPageSequence(pages) ==
    /\ Len(pages) >= 1
    /\ \A k \in 1..Len(pages) : pages[k].hasNextPage = Some(k < Len(pages))

\* fetchAllShopifyProducts has returned and every response it got was a page
LoaderServedByPages ==
    IsSome(load.returned) /\ ~load.failed /\ ~load.noData /\ IsPageSequence(load.served)

\* the index now in the store was rebuilt from what the loader returned
IndexRebuiltFromResult ==
    LoaderServedByPages /\ load.pc = "idle" /\ Len(load.returned[1]) > 0

LoaderConcatenatesPages ==
    LoaderServedByPages =>
        /\ load.requests = Len(load.served)
        /\ load.returned[1] = RecordsOfPages(load.served)

DistinctIds(list) == {list[k].id : k \in 1..Len(list)}

\* C3 as stated: served n pages, the loader issues n requests and returns the
\* records of the n pages in page order, and the index rebuilt from them
\* reports cacheSize equal to the number of records.
C3_CacheSizeIsRecordCount ==
    /\ LoaderConcatenatesPages
    /\ IndexRebuiltFromResult =>
          getInventoryStats(inventoryStore).cacheSize = Len(load.returned[1])

\* C3 amended: served n pages, the loader issues n requests and returns the
\* records of the n pages in page order; the index rebuilt from them reports
\* totalProducts equal to the number of records and cacheSize equal to the
\* number of distinct ids among them.
C3_CacheSizeIsDistinctIdCount ==
    /\ LoaderConcatenatesPages
    /\ IndexRebuiltFromResult =>
          /\ getInventoryStats(inventoryStore).totalProducts = Len(load.returned[1])
          /\ getInventoryStats(inventoryStore).cacheSize =
                Cardinality(DistinctIds(load.returned[1]))

\* three pages, the product of the first listed again on the third
C3_Witness ==
    /\ IndexRebuiltFromResult
    /\ load.requests = 3
    /\ Len(load.returned[1]) = 3
    /\ getInventoryStats(inventoryStore).cacheSize = 2

\* C4 as stated: when a page request fails after k >= 1 pages were received,
\* the loader returns the records accumulated from those k pages.
C4_FailureReturnsAccumulated ==
    (load.failed /\ Len(load.served) >= 1) =>
        load.returned = Some(RecordsOfPages(load.served))

\* C5 as stated: outside a rebuild, cacheSize equals totalProducts and both
\* equal the length of the list given to the most recent Rebuild.
C5_CacheSizeIsListLength ==
    load.pc # "storing" =>
        /\ getInventoryStats(inventoryStore).cacheSize =
              getInventoryStats(inventoryStore).totalProducts
        /\ getInventoryStats(inventoryStore).totalProducts = Len(rebuildInput.latest)

\* C5 amended: outside a rebuild, totalProducts equals the length of the list
\* given to the most recent Rebuild and cacheSize equals the number of distinct
\* ids in that list, so the two are equal exactly when no id repeats in it.
C5_CountsOfLatestList ==
    load.pc # "storing" =>
        /\ getInventoryStats(inventoryStore).totalProducts = Len(rebuildInput.latest)
        /\ getInventoryStats(inventoryStore).cacheSize =
              Cardinality(DistinctIds(rebuildInput.latest))

\* after a second Rebuild, whose list repeats an id
C5_Witness ==
    /\ load.pc = "idle"
    /\ loadsStarted = 2
    /\ rebuildInput.previous # <<>>
    /\ Len(rebuildInput.latest) = 2
    /\ Cardinality(DistinctIds(rebuildInput.latest)) = 1
    /\ getInventoryStats(inventoryStore).totalProducts = 2
    /\ getInventoryStats(inventoryStore).cacheSize = 1

IdsListedIn(index) == UNION {{e.value[k] : k \in 1..Len(e.value)} : e \in {index[n] : n \in 1..Len(index)}}

WholeIndex(list) == StoreView(storeInventoryData(EmptyStore, list, 0))

\* C7: no reader runs between the clearing of the three structures and the end
\* of their repopulation; what a reader sees is the whole index of the latest
\* Rebuild or, while the next list is still being fetched, of the one before.
C7_ReadersSeeWholeIndex ==
    readerSaw.kind # "none" =>
        /\ load.pc # "storing"
        /\ readerSaw.view = WholeIndex(readerSaw.inputs.latest)

\* a tag filter runs while the pages of a second load are in flight
C7_Witness ==
    /\ readerSaw.kind = "getProductsByTag"
    /\ loadsStarted = 2
    /\ load.pc = "json"
    /\ load.allProducts # <<>>
    /\ readerSaw.view = WholeIndex(rebuildInput.latest)
    /\ readerSaw.view.tags # <<>>

----------------------------------------------------------------------------
(* Claims about the outfit recommender *)

\* the route got as far as the completion service
CompletionAsked ==
    /\ route.handled /\ route.request.readable /\ route.apiKeyConfigured
    /\ OrElse(route.request.query, <<>>) # <<>> /\ IsSome(route.request.products)

\* C8: when the completion service returns a non-empty body that is not JSON,
\* the route answers with a success status, success = true and the degraded
\* recommendation: a primary outfit with no item and cost 0, no alternative
\* outfit, and the one styling tip that suggests other search terms.
C8_UnparsableBodyDegrades ==
    (/\ CompletionAsked
     /\ route.completion.kind = "content"
     /\ route.completion.content \in {ProseText, FencedText}) =>
        /\ route.answer.raised = None
        /\ route.answer.response.status = 200
        /\ IsSome(route.answer.response.body)
        /\ route.answer.response.body[1].success
        /\ IsSome(route.answer.response.body[1].recommendations)
        /\ LET r == route.answer.response.body[1].recommendations[1]
           IN  /\ r.primaryOutfit.items = <<>>
               /\ r.primaryOutfit.totalCost = 0
               /\ r.alternativeOutfits = <<>>
               /\ r.stylingTips = <<"Try different search terms for better recommendations">>

\* the client got the degraded recommendation of the route and stored it
C8_Witness ==
    /\ CompletionAsked
    /\ route.completion = [kind |-> "content", content |-> FencedText]
    /\ outfit.sent = Some(route.request)
    /\ Len(route.request.products[1]) = 2
    /\ outfit.outcome = "succeeded"
    /\ outfit.received = Some(route.answer.response)
    /\ IsSome(outfit.outfitRecommendations)
    /\ outfit.outfitRecommendations[1].primaryOutfit.items = <<>>

\* the request of the client met a transport error, a non-success status, a
\* body that is not JSON, or a body whose success is not true
OutfitRequestFailed ==
    /\ outfit.pc = "idle" /\ outfit.generations >= 1
    /\ \/ ~IsSome(outfit.received)
       \/ outfit.received[1].status \notin 200..299
       \/ ~IsSome(outfit.received[1].body)
       \/ ~outfit.received[1].body[1].success

\* an exception is raised inside the try block of the route
RouteRaises ==
    /\ route.handled
    /\ \/ ~route.request.readable
       \/ /\ CompletionAsked
          /\ \/ route.completion.kind \in {"throws", "noChoices"}
             \/ route.completion.content = ""

\* C9: a request of generateOutfitRecommendations that meets a transport error,
\* a non-success status or success = false leaves the stored recommendations
\* and the displayed products as they were and appends exactly one error
\* message to the chat; the route answers an exception with status 500 and an
\* error object.
C9_FailuresAreSurfaced ==
    /\ OutfitRequestFailed =>
          /\ outfit.outfitRecommendations = outfit.before.outfitRecommendations
          /\ products = outfit.before.products
          /\ Len(chat) = Len(outfit.before.chat) + 1
          /\ SubSeq(chat, 1, Len(chat) - 1) = outfit.before.chat
          /\ chat[Len(chat)].text = "Sorry, I couldn't generate outfit recommendations."
          /\ ~outfit.isGeneratingOutfit
    /\ RouteRaises =>
          /\ route.answer.response.status = 500
          /\ IsSome(route.answer.response.body)
          /\ IsSome(route.answer.response.body[1].error)
          /\ ~route.answer.response.body[1].success
          /\ ~IsSome(route.answer.response.body[1].recommendations)

\* a second request fails on the 500 of the route after a first one had stored
\* recommendations
C9_Witness ==
    /\ OutfitRequestFailed
    /\ outfit.generations = 2
    /\ IsSome(outfit.before.outfitRecommendations)
    /\ RouteRaises
    /\ outfit.sent = Some(route.request)
    /\ outfit.received = Some(route.answer.response)
    /\ outfit.received[1].status = 500

----------------
(* Claims about the catalog client and the mock filter *)

fsFailed(o) ==
    \/ o.kind \in {"networkError", "status400", "status500", "status500NoJson", "badJson",
                   "nullBody"}
    \/ /\ o.kind = "ok"
       /\ \E i \in 1..Len(OrElse(o.edges, <<>>)) : ~IsSome(OrElse(o.edges, <<>>)[i].node)

\* C2: with both credentials present, fetchStorefrontProducts never raises,
\* and when the proxy request fails (non-success status, unparsable body or
\* malformed record, network error) it returns mockFetchProducts(query)
C2_FailureFallsBackToMock ==
    (fsCall.called /\ fsCall.shopDomain # "" /\ fsCall.storefrontToken # "")
    => /\ ~fsCall.ret.raised
       /\ fsFailed(fsCall.outcome) => fsCall.ret.value = mockFetchProducts(fsCall.query)

C2_Witness ==
    /\ fsCall.called /\ fsCall.shopDomain # "" /\ fsCall.storefrontToken # ""
    /\ fsCall.outcome.kind = "status500"
    /\ fsCall.query = <<"R", "u", "n">>
    /\ fsCall.ret.requests = 1
    /\ fsCall.ret.value = <<MOCK_PRODUCTS[1]>>

SameLetter(c, d) == c = d \/ LowerChar(c) = d \/ c = LowerChar(d)

ContainsIgnoringCase(s, q) ==
    \E a \in 0..Len(s) :
        /\ a + Len(q) <= Len(s)
        /\ \A k \in 1..Len(q) : SameLetter(s[a + k], q[k])

MatchesQuery(p, q) ==
    \/ ContainsIgnoringCase(p.title, q)
    \/ \E k \in 1..Len(p.tags) : ContainsIgnoringCase(p.tags[k], q)

\* C10: mockFetchProducts("") is the whole catalog in its order; for a
\* non-empty q the result holds exactly the catalog products whose title or
\* one of whose tags contains q ignoring case, each once, in catalog order
C10_MockFilter ==
    mockCall.called =>
        LET q == mockCall.query
            r == mockCall.ret
            Pos(p) == CHOOSE i \in 1..Len(MOCK_PRODUCTS) : MOCK_PRODUCTS[i] = p
        IN  IF q = <<>> THEN r = MOCK_PRODUCTS
            ELSE /\ \A k \in 1..Len(r) :
                        \E i \in 1..Len(MOCK_PRODUCTS) :
                            r[k] = MOCK_PRODUCTS[i] /\ MatchesQuery(MOCK_PRODUCTS[i], q)
                 /\ \A i \in 1..Len(MOCK_PRODUCTS) :
                        MatchesQuery(MOCK_PRODUCTS[i], q)
                        => Cardinality({k \in 1..Len(r) : r[k] = MOCK_PRODUCTS[i]}) = 1
                 /\ \A k1, k2 \in 1..Len(r) : k1 < k2 => Pos(r[k1]) < Pos(r[k2])

\* a query in another case than the title it matches, selecting one product
C10_Witness ==
    /\ mockCall.called
    /\ mockCall.query = <<"h", "i", "g", "h", "-", "t", "o", "p">>
    /\ mockCall.ret = <<MOCK_PRODUCTS[3]>>

\* C11: with the shop domain or the access token empty, fetchStorefrontProducts
\* issues no request to the proxy and returns mockFetchProducts(query).
C11_AbsentCredentialDelegatesToMock ==
    (fsCall.called /\ (fsCall.shopDomain = "" \/ fsCall.storefrontToken = "")) =>
        /\ fsCall.ret.requests = 0
        /\ ~fsCall.ret.raised
        /\ fsCall.ret.value = mockFetchProducts(fsCall.query)

\* the domain is set, the token is not, and the proxy would have answered with records
C11_Witness ==
    /\ fsCall.called
    /\ fsCall.shopDomain # "" /\ fsCall.storefrontToken = ""
    /\ fsCall.outcome.kind = "ok" /\ Len(OrElse(fsCall.outcome.edges, <<>>)) = 2
    /\ fsCall.query = <<"R", "u", "n">>
    /\ fsCall.ret.requests = 0
    /\ fsCall.ret.value = <<MOCK_PRODUCTS[1]>>

\* the proxy answered with a success status and a body whose edges, if any,
\* all hold a record
fsSucceeded ==
    /\ fsCall.called /\ fsCall.shopDomain # "" /\ fsCall.storefrontToken # ""
    /\ fsCall.outcome.kind = "ok"
    /\ \A i \in 1..Len(OrElse(fsCall.outcome.edges, <<>>)) :
          IsSome(OrElse(fsCall.outcome.edges, <<>>)[i].node)

\* `record` is the normalized form of the remote node `n`
IsNormalized(record, n) ==
    /\ record.id = n.id /\ record.title = n.title
    /\ record.tags = (IF IsSome(n.tags) THEN n.tags[1] ELSE <<>>)
    /\ record.inventory = (IF IsSome(n.totalInventory) THEN n.totalInventory[1] ELSE 0)
    /\ record.price = (IF n.variants # <<>> /\ IsSome(n.variants[1].amount)
                       THEN n.variants[1].amount[1] ELSE 0)
    /\ record.image = (IF n.images # <<>> THEN n.images[1]
                       ELSE "https://placehold.co/480x600?text=No+Image")
    /\ record.variantId = (IF n.variants # <<>> THEN Some(n.variants[1].id) ELSE None)
    /\ record.rating = Some(45) /\ record.features = <<>> /\ record.colors = <<"Default">>

\* C12: on a successful response with zero records fetchStorefrontProducts
\* returns the mock filter result; with n >= 1 records it returns those n
\* records normalized, in the remote order, and no mock product.
C12_SuccessReturnsRemoteRecords ==
    fsSucceeded =>
        LET edges == OrElse(fsCall.outcome.edges, <<>>)
        IN  /\ fsCall.ret.requests = 1
            /\ Len(edges) = 0 => fsCall.ret.value = mockFetchProducts(fsCall.query)
            /\ Len(edges) >= 1 =>
                  /\ Len(fsCall.ret.value) = Len(edges)
                  /\ \A i \in 1..Len(edges) :
                        IsNormalized(fsCall.ret.value[i], edges[i].node[1])
                  /\ \A i \in 1..Len(fsCall.ret.value), k \in 1..Len(MOCK_PRODUCTS) :
                        fsCall.ret.value[i] # MOCK_PRODUCTS[k]

\* two records, for a query that the mock catalog matches too
C12_Witness ==
    /\ fsSucceeded
    /\ fsCall.query = <<"s">>
    /\ Len(OrElse(fsCall.outcome.edges, <<>>)) = 2
    /\ fsCall.ret.value[1].id = WoolCap.id
    /\ fsCall.ret.value[2].id = LinenShirt.id

----------------------------------------------------------------------------
(* Claims about the index operations *)

\* C13: in every state of the store, getProductsByCategory and getProductsByTag
\* with a label that is not a key of their index return the empty list; the
\* call raises nothing and leaves the store as it was.
C13_UnknownLabelGivesEmptyList ==
    /\ \A l \in CategoryLabels \cup TagLabels :
          /\ (\A n \in 1..Len(inventoryStore.categories) : inventoryStore.categories[n].key # l)
                => getProductsByCategory(inventoryStore, l) = <<>>
          /\ (\A n \in 1..Len(inventoryStore.tags) : inventoryStore.tags[n].key # l)
                => getProductsByTag(inventoryStore, l) = <<>>
    /\ (/\ indexCall.op = "getProductsByCategory"
        /\ \A n \in 1..Len(inventoryStore.categories) :
              inventoryStore.categories[n].key # indexCall.arg) => indexCall.ret = <<>>
    /\ (/\ indexCall.op = "getProductsByTag"
        /\ \A n \in 1..Len(inventoryStore.tags) :
              inventoryStore.tags[n].key # indexCall.arg) => indexCall.ret = <<>>
    /\ indexCall.op # "none" =>
          inventoryStore \in {EmptyStore,
                              storeInventoryData(EmptyStore, rebuildInput.latest,
                                                 indexCall.rebuilds)}

\* a tag that differs from a stored one only by its case, on a populated index
C13_Witness ==
    /\ indexCall.op = "getProductsByTag"
    /\ indexCall.arg = <<"C", "o", "t", "t", "o", "n">>
    /\ Len(inventoryStore.tags) = 1
    /\ inventoryStore.tags[1].key = <<"c", "o", "t", "t", "o", "n">>
    /\ Len(inventoryStore.categories) >= 1
    /\ indexCall.ret = <<>>

IsBlank(text) == \A k \in 1..Len(text) : text[k] = " "

\* the lower-cased text is a substring of one of the searched fields of p
MatchesText(p, text) ==
    \/ ContainsIgnoringCase(p.title, text)
    \/ \E k \in 1..Len(p.tags) : ContainsIgnoringCase(p.tags[k], text)
    \/ ContainsIgnoringCase(p.description, text)
    \/ ContainsIgnoringCase(p.vendor, text)
    \/ ContainsIgnoringCase(p.productType, text)

\* the positions in the store of the products that a search for text selects
HitsOf(text) ==
    {i \in 1..Len(inventoryStore.products) :
        IsBlank(text) \/ MatchesText(inventoryStore.products[i].value, text)}

\* C14: searchStoredInventory returns the first 12 (or all, if fewer) of the
\* stored products that match, in store order: every stored product for a
\* blank query, otherwise those with the lower-cased query in the title, a
\* tag, the description, the vendor or the product type.
C14_SearchReturnsFirstTwelveMatches ==
    indexCall.op = "searchStoredInventory" =>
        LET hits == HitsOf(indexCall.arg)
            ret == indexCall.ret
        IN  /\ Len(ret) = (IF Cardinality(hits) < 12 THEN Cardinality(hits) ELSE 12)
            /\ \A k \in 1..Len(ret) :
                  \E i \in hits :
                     /\ Cardinality({j \in hits : j < i}) = k - 1
                     /\ ret[k] = inventoryStore.products[i].value

\* thirteen stored products match, the second stored does not: twelve are returned
C14_Witness ==
    /\ indexCall.op = "searchStoredInventory"
    /\ indexCall.arg = <<"T", "E", "E">>
    /\ Cardinality(HitsOf(indexCall.arg)) > 12
    /\ Len(indexCall.ret) = 12
    /\ indexCall.ret[2] = inventoryStore.products[3].value
    /\ indexCall.ret[12] = inventoryStore.products[13].value

----------------------------------------------------------------------------
(* Claims about the answer heuristic and the translator *)

\* the four-character tag of a translated language, nothing for any other
LanguageTag(lang) ==
    CASE lang = "fr" -> <<"F", "R", ":", " ">>
      [] lang = "es" -> <<"E", "S", ":", " ">>
      [] lang = "hi" -> <<"H", "I", ":", " ">>
      [] OTHER -> <<>>

RatingOf(p) == IF p.rating = <<>> THEN 0 ELSE p.rating[1]

\* the positions of the products priced at or under 100
Affordable(list) == {i \in 1..Len(list) : list[i].price <= 100 * 100}

\* the earliest of the affordable products that no affordable product outrates
BestOf(list) ==
    CHOOSE i \in Affordable(list) :
        /\ \A j \in Affordable(list) : RatingOf(list[j]) <= RatingOf(list[i])
        /\ \A j \in Affordable(list) : j < i => RatingOf(list[j]) < RatingOf(list[i])

\* C15: mockLLMAnswer names the best rated product among those priced at or
\* under 100, a missing rating counting as 0 and the earliest of equally rated
\* products winning; with no such product it returns the nothing-found
\* sentence; the answer, which carries the tag of the language, is never empty.
C15_AnswerNamesBestAffordable ==
    answerCall.op = "mockLLMAnswer" =>
        LET list == answerCall.products
            tag == LanguageTag(answerCall.lang)
            ret == answerCall.ret
        IN  /\ ret # <<>>
            /\ SubSeq(ret, 1, Len(tag)) = tag
            /\ Affordable(list) = {} =>
                  ret = tag \o <<"I couldn't find an item under that budget in stock.">>
            /\ Affordable(list) # {} =>
                  LET best == list[BestOf(list)]
                  IN  /\ ret[Len(tag) + 1] = "Best under budget: "
                      /\ SubSeq(ret, Len(tag) + 2, Len(tag) + 1 + Len(best.title)) = best.title
                      /\ ret[Len(tag) + 2 + Len(best.title)] = " ($"

\* the three mock products, priced 89.99, 99 and 79.5 and rated 4.6, 4.4 and 4.1
C15_Witness ==
    /\ answerCall.op = "mockLLMAnswer"
    /\ answerCall.products = MOCK_PRODUCTS
    /\ answerCall.lang = "en"
    /\ answerCall.ret = <<"Best under budget: ">> \o MOCK_PRODUCTS[1].title
                        \o <<" ($", "8", "9", ".", "9", "9", "). Features: ",
                             "Mesh upper", ", ", "Cushion midsole", ".">>

\* C16: translate returns the text unchanged for "en" and for any tag other
\* than "fr", "es", "hi"; for these it returns "FR: ", "ES: ", "HI: " followed
\* by the text, so that dropping the first four characters gives the text back.
C16_TranslatePrefixes ==
    answerCall.op = "translate" =>
        LET s == answerCall.text
            ret == answerCall.ret
            tagged == answerCall.lang \in {"fr", "es", "hi"}
        IN  /\ ~tagged => ret = s
            /\ tagged => Len(ret) = Len(s) + 4
            /\ tagged /\ Len(ret) >= 4 =>
                  /\ answerCall.lang = "fr" => SubSeq(ret, 1, 4) = <<"F", "R", ":", " ">>
                  /\ answerCall.lang = "es" => SubSeq(ret, 1, 4) = <<"E", "S", ":", " ">>
                  /\ answerCall.lang = "hi" => SubSeq(ret, 1, 4) = <<"H", "I", ":", " ">>
                  /\ SubSeq(ret, 5, Len(ret)) = s

\* a text that already starts with a tag is tagged once more
C16_Witness ==
    /\ answerCall.op = "translate"
    /\ answerCall.lang = "hi"
    /\ answerCall.text = <<"F", "R", ":", " ", "H", "i">>
    /\ answerCall.ret = <<"H", "I", ":", " ", "F", "R", ":", " ", "H", "i">>

----------------------------------------------------------------------------
(* Claims about the cart *)

CartIds(entries) == {entries[k].id : k \in 1..Len(entries)}

\* the quantity the cart holds for an id, 0 for an id without an entry
QuantityOf(entries, id) ==
    IF id \in CartIds(entries)
    THEN entries[CHOOSE k \in 1..Len(entries) : entries[k].id = id].qty
    ELSE 0

\* C17: the cart starts empty; in every state every entry has a positive
\* integer quantity; a step that handles an addToCart call raises the quantity
\* of one id by exactly 1 and leaves every other entry as it was, and a step
\* that handles none leaves the cart as it was.
C17_QuantitiesPositiveAndRaisedByOne ==
    /\ cart = <<>>
    /\ [][/\ \A k \in 1..Len(cart') : cart'[k].qty \in Nat \ {0}
          /\ \A k1, k2 \in 1..Len(cart') : cart'[k1].id = cart'[k2].id => k1 = k2
          /\ addCalls' = addCalls => cart' = cart
          /\ addCalls' # addCalls =>
                \E id \in CartIds(cart') :
                    /\ CartIds(cart') = CartIds(cart) \cup {id}
                    /\ QuantityOf(cart', id) = QuantityOf(cart, id) + 1
                    /\ \A other \in CartIds(cart) \ {id} :
                          QuantityOf(cart', other) = QuantityOf(cart, other)]_vars

\* one id added twice, another once, and the displayed list replaced since
C17_Witness ==
    /\ Len(cart) = 2
    /\ cart[1].qty = 2
    /\ cart[2].qty = 1
    /\ \A k \in 1..Len(cart) : \A i \in 1..Len(products) : products[i].id # cart[k].id

----------------------------------------------------------------------------
(* Claims about the page requests of the bulk catalog loader *)

\* C18: the page requests of a load are issued one after another: the first
\* carries no cursor, request k+1 is issued after response k was received and
\* carries the endCursor of response k, and at most one request is in flight.
C18_PageRequestsAreSequential ==
    LET n == Len(load.sent)
    IN  /\ load.requests = n
        /\ n >= 1 => load.sent[1] = None
        /\ load.answered \in {n - 1, n} \cap Nat
        /\ (load.answered = n - 1) <=> (load.pc = "fetching")
        /\ \A k \in 1..(n - 1) :
              /\ Len(load.served) >= k
              /\ load.served[k].hasNextPage = Some(TRUE)
              /\ load.sent[k + 1] = load.served[k].endCursor

\* the third request of a load is in flight, carrying the cursor the second
\* response gave, which is not the cursor of the second request
C18_Witness ==
    /\ load.pc = "fetching"
    /\ Len(load.sent) = 3
    /\ load.answered = 2
    /\ load.sent[3] = load.served[2].endCursor
    /\ load.sent[3] # load.sent[2]
    /\ load.sent[2] # load.sent[1]

LoaderRuns(task) == task.pc \in {"fetching", "json"}

\* the response being read reports another page
ReportsMore(task) == task.pc = "json" /\ task.body[1].hasNextPage = Some(TRUE)

\* C19: the loader leaves its loop at the first response that does not report
\* another page, or through a failure, and issues no request after it; after a
\* response that reports another page it issues the next request, however many
\* it has issued; and a running loader whose requests settle returns once a
\* response does not report another page or a step fails.
C19_StopsAtLastPageOnly ==
    /\ [][/\ (load.pc = "json" /\ ~ReportsMore(load) /\ load' # load)
                => ~LoaderRuns(load') /\ load'.requests = load.requests
          /\ (ReportsMore(load) /\ load' # load /\ ~load'.failed)
                => load'.pc = "fetching" /\ load'.requests = load.requests + 1
          /\ (LoaderRuns(load) /\ ~LoaderRuns(load'))
                => /\ load'.returned # None
                   /\ load'.failed \/ (load.pc = "json" /\ ~ReportsMore(load))]_vars
    /\ LoaderRuns(load) ~> (load.returned # None)

\* a load that was answered "another page" past the end of the listing, as
\* many times as the listing is let to, and returned at the first response
\* that did not
C19_Witness ==
    /\ load.returned # None
    /\ ~load.failed
    /\ load.requests = MaxRequests
    /\ Len(load.served) = MaxRequests
    /\ MaxRequests > Len(shopCatalog)
    /\ \A k \in 1..(MaxRequests - 1) : load.served[k].hasNextPage = Some(TRUE)
    /\ load.served[MaxRequests].hasNextPage = Some(FALSE)

----------------------------------------------------------------------------
(* Claims about a bulk load without credentials *)

\* C20: with the shop domain or the access token absent no page request is
\* issued, fetchAllShopifyProducts returns the empty list, loadFullInventory
\* shows the missing-credentials alert, and no step changes the three index
\* structures, the total count, the loading flag or the stored statistics.
C20_NoCredentialsNoLoad ==
    [][(shopDomain = "" \/ storefrontToken = "") =>
          /\ inventoryStore' = inventoryStore
          /\ inventoryStats' = inventoryStats
          /\ chat' = chat
          /\ load'.pc = "idle" /\ load'.requests = 0 /\ load'.sent = <<>>
          /\ load'.returned \in {None, Some(<<>>)}
          /\ alertShown' \in {alertShown, "Please set Shopify credentials first"}
          /\ (load' = load /\ alertShown' = alertShown) => UNCHANGED vars]_vars

\* the domain is set and the token is not: the button was pressed and
\* fetchAllShopifyProducts was called
C20_Witness ==
    /\ shopDomain # ""
    /\ storefrontToken = ""
    /\ alertShown = "Please set Shopify credentials first"
    /\ load.returned = Some(<<>>)
    /\ load.requests = 0
    /\ ~inventoryStore.isLoading

----------------------------------------------------------------------------
(* Claims about the product summary of the outfit route *)

\* C21 as stated: every product of the summary forwarded to the completion
\* service has inStock true, whatever its inventory (positive, zero, negative
\* or absent).
C21_EveryProductInStock ==
    (route.handled /\ IsSome(route.answer.prompt)) =>
        \A k \in 1..Len(route.answer.prompt[1].products) :
            route.answer.prompt[1].products[k].inStock

----------------------------------------------------------------------------
(* Claims about the outfit request of the client *)

\* C22: a step in which generateOutfitRecommendations sends a request is taken
\* with a style text that is not empty, in cache mode and with a primary store
\* that is not empty, and the products it sends are the whole content of the
\* primary store, in store order, none of them a mock product.
C22_RequestOnlyWithPopulatedIndex ==
    [][(outfit'.generations # outfit.generations) =>
          /\ outfit.outfitQuery # <<>>
          /\ useStoredInventory
          /\ inventoryStore.products # <<>>
          /\ IsSome(outfit'.sent)
          /\ outfit'.sent[1].products =
                Some([k \in 1..Len(inventoryStore.products) |-> inventoryStore.products[k].value])
          /\ \A k \in 1..Len(outfit'.sent[1].products[1]) :
                \A i \in 1..Len(MOCK_PRODUCTS) :
                    outfit'.sent[1].products[1][k].id # MOCK_PRODUCTS[i].id]_vars

\* a request with both stored products is pending and the alert of the
\* guards was shown before, when the style text was blank
C22_Witness ==
    /\ outfit.pc = "awaitFetch"
    /\ IsSome(outfit.sent)
    /\ Len(outfit.sent[1].products[1]) = 2
    /\ alertShown = "Please describe the type of outfit you want"

----------------------------------------------------------------------------
(* Claims about the content of the index after a rebuild *)

\* the index was rebuilt, from a list in which no id occurs twice
RebuiltFromUniqueIds ==
    /\ indexCall.rebuilds >= 1
    /\ \A i, j \in 1..Len(rebuildInput.latest) :
          rebuildInput.latest[i].id = rebuildInput.latest[j].id => i = j

TimesTagged(p, t) == Cardinality({k \in 1..Len(p.tags) : p.tags[k] = t})

\* the products of the list tagged t, in list order, each once
RECURSIVE TaggedOnce(_, _)
TaggedOnce(list, t) ==
    IF list = <<>> THEN <<>>
    ELSE (IF TimesTagged(Head(list), t) > 0 THEN <<Head(list)>> ELSE <<>>)
         \o TaggedOnce(Tail(list), t)

\* the products of the list tagged t, in list order, each as many times as
\* its tag list holds t
RECURSIVE TaggedPerOccurrence(_, _)
TaggedPerOccurrence(list, t) ==
    IF list = <<>> THEN <<>>
    ELSE [k \in 1..TimesTagged(Head(list), t) |-> Head(list)]
         \o TaggedPerOccurrence(Tail(list), t)

\* the products of the list whose product type is c, in list order
RECURSIVE OfType(_, _)
OfType(list, c) ==
    IF list = <<>> THEN <<>>
    ELSE (IF Head(list).productType = c THEN <<Head(list)>> ELSE <<>>) \o OfType(Tail(list), c)

HasRepeatedId(ids) == \E i, j \in 1..Len(ids) : i # j /\ ids[i] = ids[j]

\* C23 as stated: after a rebuild from a list of unique ids, getProductsByTag(t)
\* is the products tagged t, each once, in list order, getProductsByCategory(c)
\* is the products of type c, each once, in list order, and no index list
\* holds an id twice.
C23_IndexListsEachOnce ==
    RebuiltFromUniqueIds =>
        /\ \A t \in TagLabels :
              getProductsByTag(inventoryStore, t) = TaggedOnce(rebuildInput.latest, t)
        /\ \A c \in CategoryLabels :
              getProductsByCategory(inventoryStore, c) = OfType(rebuildInput.latest, c)
        /\ \A n \in 1..Len(inventoryStore.tags) : ~HasRepeatedId(inventoryStore.tags[n].value)
        /\ \A n \in 1..Len(inventoryStore.categories) :
              ~HasRepeatedId(inventoryStore.categories[n].value)

\* C23 amended: after a rebuild from a list of unique ids, getProductsByTag(t)
\* is the products tagged t in list order, each as many times as its tag list
\* holds t; getProductsByCategory(c) is, for a non-empty c, the products of
\* type c, each once, in list order, and is empty for the empty label; a
\* category list holds no id twice, and a tag list holds an id twice only if
\* the product lists that tag twice.
C23_IndexListsFollowInput ==
    RebuiltFromUniqueIds =>
        /\ \A t \in TagLabels :
              getProductsByTag(inventoryStore, t) = TaggedPerOccurrence(rebuildInput.latest, t)
        /\ \A c \in CategoryLabels :
              getProductsByCategory(inventoryStore, c) =
                 (IF c = <<>> THEN <<>> ELSE OfType(rebuildInput.latest, c))
        /\ \A n \in 1..Len(inventoryStore.categories) :
              ~HasRepeatedId(inventoryStore.categories[n].value)
        /\ \A n \in 1..Len(inventoryStore.tags) :
              HasRepeatedId(inventoryStore.tags[n].value) =>
                 \E i \in 1..Len(rebuildInput.latest) :
                    TimesTagged(rebuildInput.latest[i], inventoryStore.tags[n].key) > 1
        /\ indexCall.op = "getProductsByTag" =>
              indexCall.ret = TaggedPerOccurrence(rebuildInput.latest, indexCall.arg)
        /\ indexCall.op = "getProductsByCategory" /\ indexCall.arg # <<>> =>
              indexCall.ret = OfType(rebuildInput.latest, indexCall.arg)

\* seven of fourteen stored products carry the tag asked for
C23_Witness ==
    /\ RebuiltFromUniqueIds
    /\ Len(rebuildInput.latest) = MaxStored
    /\ indexCall.op = "getProductsByTag"
    /\ indexCall.arg = <<"c", "o", "t", "t", "o", "n">>
    /\ Len(indexCall.ret) = MaxStored \div 2
    /\ indexCall.ret[1] = rebuildInput.latest[2]

KeysOf(m) == {m[n].key : n \in 1..Len(m)}

TagsOf(list) == UNION {{list[i].tags[k] : k \in 1..Len(list[i].tags)} : i \in 1..Len(list)}

\* C24: after a rebuild the primary store, the category index and the tag
\* index are those that a rebuild of the empty store from the same list gives;
\* every stored id, category label and tag comes from the latest list, so that
\* nothing of the list of the rebuild before remains unless the latest list
\* holds it too.
C24_RebuildReplacesWholesale ==
    indexCall.rebuilds >= 1 =>
        LET latest == rebuildInput.latest
            fresh == storeInventoryData(EmptyStore, latest, indexCall.rebuilds)
        IN  /\ inventoryStore.products = fresh.products
            /\ inventoryStore.categories = fresh.categories
            /\ inventoryStore.tags = fresh.tags
            /\ KeysOf(inventoryStore.products) = {latest[i].id : i \in 1..Len(latest)}
            /\ KeysOf(inventoryStore.categories) =
                  {latest[i].productType : i \in 1..Len(latest)} \ {<<>>}
            /\ KeysOf(inventoryStore.tags) = TagsOf(latest)
            /\ IdsListedIn(inventoryStore.categories) \subseteq KeysOf(inventoryStore.products)
            /\ IdsListedIn(inventoryStore.tags) \subseteq KeysOf(inventoryStore.products)

\* the second rebuild was given one product without tag or product type, the
\* first two products with both
C24_Witness ==
    /\ indexCall.rebuilds = 2
    /\ rebuildInput.previous = <<OxfordShirt, DenimJacket>>
    /\ rebuildInput.latest = <<PlainTee>>
    /\ Len(inventoryStore.products) = 1
    /\ inventoryStore.categories = <<>>
    /\ inventoryStore.tags = <<>>

----------------------------------------------------------------------------
(* Claims about the loading flag *)

\* a bulk load was started and has not reached the end of loadFullInventory
LoadInFlight == load.pc \in {"fetching", "json", "storing"}

\* every finished load appended one system message to the chat
LoadsFinished == Len(chat) - Len(InitialChat)

\* C25: at most one bulk load is in flight; the loading flag, as
\* getInventoryStats() reports it and as the component holds it, is true
\* while a started load has not finished and false once every started load
\* has finished, with a list, with an empty result or after a failure.
C25_LoadingFlagTracksTheLoad ==
    /\ loadsStarted - LoadsFinished \in {0, 1}
    /\ (loadsStarted - LoadsFinished = 1) <=> LoadInFlight
    /\ getInventoryStats(inventoryStore).isLoading <=> LoadInFlight
    /\ inventoryStats.isLoading <=> LoadInFlight

\* a second load is in flight after a first one that failed
C25_Witness ==
    /\ loadsStarted = 2
    /\ LoadsFinished = 1
    /\ load.pc = "json"
    /\ chat[Len(chat)] = SystemMessage("Failed to load inventory. Check your Shopify credentials.", 0)
    /\ inventoryStats.isLoading

----------------------------------------------------------------------------
(* Claims about the displayed product list *)

\* C27 as stated: in cache mode with a populated index, once a tag button has
\* been handled and the effects it triggers have run, the displayed list is
\* getProductsByTag of that tag; the query "Tag: t" that the handler writes
\* does not make the product-fetch effect replace the list by a text search.
C27_FilterResultStaysDisplayed ==
    readerSaw.kind = "getProductsByTag" =>
        \E tag \in KnownTags :
            /\ query = TagQuery(tag)
            /\ products = getProductsByTag(inventoryStore, tag)

\* C26 as stated: once no run of the product-fetch effect is waiting, the
\* displayed list is the one written by the latest run, the run started for
\* the most recent query, credentials and cache mode; the result of an older
\* run never replaces that of a newer one.
C26_LatestRunIsDisplayed ==
    (fetchEffect.pending = <<>> /\ readerSaw.kind # "getProductsByTag") =>
        fetchEffect.shown.run = fetchEffect.started

\* C29: a run of the product-fetch effect that took the live branch displays,
\* when fetchStorefrontProducts returns, the returned list, or the whole mock
\* catalog if that list is empty, so never an empty list; a step that turns
\* the displayed list empty is a search of the store or a tag filter, in
\* cache mode with a populated cache.
C29_LiveResultIsNeverEmpty ==
    [][/\ (Len(fetchEffect'.pending) < Len(fetchEffect.pending)) =>
             /\ fetchEffect'.shown.by = "fetchStorefrontProducts"
             /\ products' = (IF fetchEffect'.shown.got = <<>> THEN MOCK_PRODUCTS
                             ELSE fetchEffect'.shown.got)
             /\ products' # <<>>
       /\ (products' = <<>> /\ products # <<>>) =>
             /\ readerSaw'.kind \in {"searchStoredInventory", "getProductsByTag"}
             /\ useStoredInventory'
             /\ inventoryStats'.cacheSize > 0]_vars

\* the request for a query that matches no mock product failed: the mock
\* filter gave nothing and the whole mock catalog is displayed
C29_Witness ==
    /\ fetchEffect.shown.by = "fetchStorefrontProducts"
    /\ fetchEffect.shown.got = <<>>
    /\ query = <<"x", "y", "z">>
    /\ fetchEffect.pending = <<>>
    /\ ~useStoredInventory
    /\ products = MOCK_PRODUCTS

----------------------------------------------------------------------------
(* Claims about loads that yield nothing and about bulk-loaded records *)

\* what storeInventoryData writes: the three structures, the count and the time
IndexState(store) ==
    [view |-> StoreView(store), totalCount |-> store.totalCount,
     lastUpdated |-> store.lastUpdated]

\* C28: a bulk load that yields no products leaves the inventory index as it
\* was.  The step that starts a load only raises the loading flag; the steps
\* of a load in flight change nothing of the index; the step in which
\* fetchAllShopifyProducts returns an empty list does not start a rebuild,
\* keeps the primary store, both secondary indexes, the total count, the
\* last-updated time and the cache-mode switch, appends the failure message
\* to the chat and lowers the loading flag.
C28_EmptyLoadLeavesIndex ==
    [][/\ (load.pc = "idle" /\ load'.pc = "fetching") =>
              /\ inventoryStore' = [inventoryStore EXCEPT !.isLoading = TRUE]
              /\ useStoredInventory' = useStoredInventory
              /\ chat' = chat
       /\ (load.pc \in {"fetching", "json"} /\ load'.pc \in {"fetching", "json"}) =>
              /\ inventoryStore' = inventoryStore
              /\ inventoryStore.isLoading
              /\ useStoredInventory' = useStoredInventory
              /\ chat' = chat
       /\ (load.returned = None /\ load'.returned = Some(<<>>)) =>
              /\ load'.pc = "idle"
              /\ IndexState(inventoryStore') = IndexState(inventoryStore)
              /\ rebuildInput' = rebuildInput
              /\ useStoredInventory' = useStoredInventory
              /\ inventoryStore.isLoading /\ ~inventoryStore'.isLoading
              /\ inventoryStats' = [totalProducts |-> inventoryStore.totalCount,
                                    categories |-> Len(inventoryStore.categories),
                                    tags |-> Len(inventoryStore.tags),
                                    lastUpdated |-> inventoryStore.lastUpdated,
                                    isLoading |-> FALSE,
                                    cacheSize |-> Len(inventoryStore.products)]
              /\ chat' = Append(chat, SystemMessage(
                     "Failed to load inventory. Check your Shopify credentials.", 0))]_vars

\* a load failed after an earlier load had populated the index
C28_Witness ==
    /\ load.pc = "idle"
    /\ load.returned = Some(<<>>)
    /\ load.failed
    /\ loadsStarted >= 2
    /\ Len(inventoryStore.products) > 0
    /\ useStoredInventory
    /\ ~inventoryStore.isLoading
    /\ chat # <<>> /\ chat[Len(chat)] =
          SystemMessage("Failed to load inventory. Check your Shopify credentials.", 0)

\* a record as the bulk loader leaves it: no type, description, vendor, features
BulkShaped(p) ==
    /\ p.productType = <<>>
    /\ p.description = <<>>
    /\ p.vendor = <<>>
    /\ p.features = <<>>

\* the stored products whose title or one of whose tags contains the lower-cased text
TitleOrTagMatches(store, text) ==
    LET q == toLowerCase(text)
        Hit(p) == \/ includes(toLowerCase(p.title), q)
                  \/ \E k \in 1..Len(p.tags) : includes(toLowerCase(p.tags[k]), q)
    IN  SelectSeq(mapValues(store.products), Hit)

\* C30: every record the bulk loader produces, and so every record in the
\* store, has an empty product type, description, vendor and feature list;
\* the category index is empty and the stats report 0 categories;
\* getProductsByCategory returns an empty list for every label; and a
\* non-blank text search returns the first SearchLimit products matched by
\* title or tags.
C30_BulkRecordsHaveNoCategory ==
    /\ \A k \in 1..Len(load.allProducts) : BulkShaped(load.allProducts[k])
    /\ \A k \in 1..Len(inventoryStore.products) : BulkShaped(inventoryStore.products[k].value)
    /\ inventoryStore.categories = <<>>
    /\ getInventoryStats(inventoryStore).categories = 0
    /\ inventoryStats.categories = 0
    /\ \A label \in CategoryLabels : getProductsByCategory(inventoryStore, label) = <<>>
    /\ \A text \in Queries :
          trim(text) # <<>> =>
              searchStoredInventory(inventoryStore, text) =
                  sliceFirst(TitleOrTagMatches(inventoryStore, text), SearchLimit)

\* a finished load of both products of the shop, one of them found by its tag
\* and title
C30_Witness ==
    /\ load.pc = "idle"
    /\ IsSome(load.returned) /\ Len(load.returned[1]) = 2
    /\ Len(inventoryStore.products) = 2
    /\ inventoryStats.tags > 0
    /\ inventoryStats.categories = 0
    /\ Len(searchStoredInventory(inventoryStore, <<"l", "i", "n", "e", "n">>)) = 1

====
